---------------------------- MODULE Spec2Model ----------------------------
(***************************************************************************)
(* Lead-generation pipeline: the retry/backoff executor (modules/utils.py), *)
(* the CRM sync (modules/monday_crm.py), the contact enrichment            *)
(* (modules/contact_enrichment.py), the email outreach                     *)
(* (modules/email_outreach.py) and the batch runner (main.py).             *)
(*                                                                         *)
(* The program is single-threaded: a handler runs to completion before the *)
(* next one starts.  A handler is modelled as a sequence of steps, one per *)
(* invocation of a remote call, sequenced by a program counter; the code   *)
(* that runs between two remote calls belongs to the step of the first.    *)
(* Strings are sequences of one-character strings, so that lower() and the *)
(* substring test are computed and not assumed.  Waits are in milliseconds.*)
(***************************************************************************)
EXTENDS Integers, Sequences, FiniteSets, TLC

VARIABLES
    rt,      \* frame of the running retry_with_backoff wrapper
    board,   \* the remote CRM board
    crm,     \* MondayCRMService: the handler in progress and its last call
    hunter,  \* ContactEnrichmentService.enrich_companies in hunter mode
    pick,    \* one application of _pick_best_contact
    mail,    \* EmailOutreachService: send_emails_batch in progress
    scrape,  \* ContactEnrichmentService in manual (scrape-and-infer) mode
    pipe     \* main.py: run_batch and the run_pipeline of its current job

vars == <<rt, board, crm, hunter, pick, mail, scrape, pipe>>

Min(a, b) == IF a <= b THEN a ELSE b

Max(a, b) == IF a >= b THEN a ELSE b

RECURSIVE Pow(_, _)
Pow(b, e) == IF e = 0 THEN 1 ELSE b * Pow(b, e - 1)

(***************************************************************************)
(* str.lower() and the `in` substring test of Python, on ASCII text.       *)
(***************************************************************************)
ascii_lowercase ==
    [c \in {"A","B","C","D","E","F","G","H","I","J","K","L","M",
            "N","O","P","Q","R","S","T","U","V","W","X","Y","Z"} |->
       CASE c = "A" -> "a" [] c = "B" -> "b" [] c = "C" -> "c" [] c = "D" -> "d"
         [] c = "E" -> "e" [] c = "F" -> "f" [] c = "G" -> "g" [] c = "H" -> "h"
         [] c = "I" -> "i" [] c = "J" -> "j" [] c = "K" -> "k" [] c = "L" -> "l"
         [] c = "M" -> "m" [] c = "N" -> "n" [] c = "O" -> "o" [] c = "P" -> "p"
         [] c = "Q" -> "q" [] c = "R" -> "r" [] c = "S" -> "s" [] c = "T" -> "t"
         [] c = "U" -> "u" [] c = "V" -> "v" [] c = "W" -> "w" [] c = "X" -> "x"
         [] c = "Y" -> "y" [] c = "Z" -> "z"]

lower(s) ==
    [i \in 1..Len(s) |->
        IF s[i] \in DOMAIN ascii_lowercase THEN ascii_lowercase[s[i]] ELSE s[i]]

contains(sub, s) ==
    \E i \in 0..(Len(s) - Len(sub)) : SubSeq(s, i + 1, i + Len(sub)) = sub

(***************************************************************************)
(* retry_with_backoff (modules/utils.py).                                  *)
(*                                                                         *)
(* A frame holds the decorator's arguments, the locals of wrapper (attempt,*)
(* delay) and a trace of what the wrapper did: the outcome of each         *)
(* invocation of the wrapped function, the waits performed, and which      *)
(* invocation's result or exception left the wrapper.  The frame of a call *)
(* made by a handler is dropped (IdleFrame) when the handler is over.      *)
(* An invocation of the wrapped function ends in one of three ways:        *)
(*   "return"    it returns a value;                                       *)
(*   "retryable" it raises an instance of retryable_exceptions;            *)
(*   "other"     it raises any other exception.                            *)
(***************************************************************************)
Outcomes == {"return", "retryable", "other"}

IdleFrame ==
    [status |-> "idle", max_retries |-> 0, base_delay |-> 0, max_delay |-> 0,
     backoff_factor |-> 0, attempt |-> 0, delay |-> 0, outcomes |-> <<>>,
     sleeps |-> <<>>, returned |-> 0, raised |-> 0]

\* wrapper entry: delay = base_delay, last_exception = None, attempt = 0
retry_with_backoff(max_retries, base_delay, max_delay, backoff_factor) ==
    [status |-> "running", max_retries |-> max_retries, base_delay |-> base_delay,
     max_delay |-> max_delay, backoff_factor |-> backoff_factor,
     attempt |-> 0, delay |-> base_delay, outcomes |-> <<>>, sleeps |-> <<>>,
     returned |-> 0, raised |-> 0]

\* mutant: one attempt too many (the test reads attempt == max_retries + 1)
wrapper_extra_attempt(w, o) ==
    LET n == Len(w.outcomes) + 1
        w1 == [w EXCEPT !.outcomes = Append(@, o)]
    IN  IF o = "return" THEN [w1 EXCEPT !.status = "returned", !.returned = n]
        ELSE IF o = "other" THEN [w1 EXCEPT !.status = "raised", !.raised = n]
        ELSE IF w.attempt = w.max_retries + 1
             THEN [w1 EXCEPT !.status = "raised", !.raised = n]
             ELSE [w1 EXCEPT !.attempt = @ + 1,
                             !.sleeps = Append(@, w.delay),
                             !.delay = Min(w.delay * w.backoff_factor, w.max_delay)]

\* mutant: every exception is retried (except Exception)
wrapper_retry_all(w, o) ==
    LET n == Len(w.outcomes) + 1
        w1 == [w EXCEPT !.outcomes = Append(@, o)]
    IN  IF o = "return" THEN [w1 EXCEPT !.status = "returned", !.returned = n]
        ELSE IF w.attempt = w.max_retries
             THEN [w1 EXCEPT !.status = "raised", !.raised = n]
             ELSE [w1 EXCEPT !.attempt = @ + 1,
                             !.sleeps = Append(@, w.delay),
                             !.delay = Min(w.delay * w.backoff_factor, w.max_delay)]

\* One iteration of the for loop of wrapper, the wrapped function ending in o.
wrapper(w, o) ==
    LET n == Len(w.outcomes) + 1
        w1 == [w EXCEPT !.outcomes = Append(@, o)]
    IN  IF o = "return" THEN [w1 EXCEPT !.status = "returned", !.returned = n]
        ELSE IF o = "other" THEN [w1 EXCEPT !.status = "raised", !.raised = n]
        ELSE IF w.attempt = w.max_retries
             THEN [w1 EXCEPT !.status = "raised", !.raised = n]
             ELSE [w1 EXCEPT !.attempt = @ + 1,
                             !.sleeps = Append(@, w.delay),
                             !.delay = Min(w.delay * w.backoff_factor, w.max_delay)]


(***************************************************************************)
(* The executor on its own: a wrapped call with arbitrary arguments, whose *)
(* wrapped function ends each invocation in an arbitrary way.              *)
(***************************************************************************)
default_max_delay == 60000

default_backoff_factor == 2

MaxRetriesArg == 3

MaxDelayArg == 3

MaxFactorArg == 3

RetryIdle ==
    /\ board = [prefill |-> 0, columns |-> {}, items |-> <<>>]
    /\ crm = [pc |-> "off"]
    /\ hunter = [pc |-> "off"]
    /\ pick = [pc |-> "off"]
    /\ mail = [pc |-> "off"]
    /\ scrape = [pc |-> "off"]
    /\ pipe = [pc |-> "off"]

RetryInit ==
    /\ rt = IdleFrame
    /\ RetryIdle

RetryCall ==
    /\ rt.status # "running"
    /\ \E m \in 0..MaxRetriesArg, b \in 1..MaxDelayArg, c \in 1..MaxDelayArg,
          f \in 1..MaxFactorArg :
          rt' = retry_with_backoff(m, b, c, f)
    /\ UNCHANGED <<board, crm, hunter, pick, mail, scrape, pipe>>

RetryInvoke ==
    /\ rt.status = "running"
    /\ \E o \in Outcomes : rt' = wrapper(rt, o)
    /\ UNCHANGED <<board, crm, hunter, pick, mail, scrape, pipe>>

RetryNext == RetryCall \/ RetryInvoke

SpecRetry == RetryInit /\ [][RetryNext]_vars

\* C4: a wrapped call makes at most max_retries + 1 invocations and is over
\* once it made them; an invocation that returns is the last one and its
\* result is what the wrapper returns; when all max_retries + 1 invocations
\* raise a retryable exception, the exception of the last one propagates.
C4_RetryBounded ==
    rt.status # "idle" =>
        /\ Len(rt.outcomes) <= rt.max_retries + 1
        /\ (rt.status = "running" => Len(rt.outcomes) <= rt.max_retries)
        /\ \A i \in 1..Len(rt.outcomes) :
              rt.outcomes[i] = "return" =>
                  /\ i = Len(rt.outcomes)
                  /\ rt.status = "returned"
                  /\ rt.returned = i
        /\ (/\ Len(rt.outcomes) = rt.max_retries + 1
            /\ \A i \in 1..Len(rt.outcomes) : rt.outcomes[i] = "retryable")
           => (rt.status = "raised" /\ rt.raised = rt.max_retries + 1)

C4_Witness ==
    /\ rt.status = "raised"
    /\ rt.max_retries >= 2
    /\ Len(rt.outcomes) = rt.max_retries + 1
    /\ \A i \in 1..Len(rt.outcomes) : rt.outcomes[i] = "retryable"

\* C5: an exception that is not retryable leaves the wrapper from the
\* invocation that raised it: that invocation is the last one, its exception
\* is the one that propagates, and no wait follows it (the waits performed
\* are those of the retryable failures before it).
C5_NonRetryablePropagates ==
    \A i \in 1..Len(rt.outcomes) :
        rt.outcomes[i] = "other" =>
            /\ rt.status = "raised"
            /\ rt.raised = i
            /\ i = Len(rt.outcomes)
            /\ Len(rt.sleeps) = i - 1

C5_Witness ==
    /\ rt.status = "raised"
    /\ Len(rt.outcomes) >= 2
    /\ Len(rt.outcomes) <= rt.max_retries
    /\ rt.outcomes[Len(rt.outcomes)] = "other"

\* C6: the wait before retry k is min(base_delay * backoff_factor^(k-1),
\* max_delay), for all values of the three arguments.
C6_WaitFormula ==
    \A k \in 1..Len(rt.sleeps) :
        rt.sleeps[k] = Min(rt.base_delay * Pow(rt.backoff_factor, k - 1), rt.max_delay)

(***************************************************************************)
(* _pick_best_contact (modules/contact_enrichment.py).                     *)
(* A candidate is an email record of the domain search, reduced to value,  *)
(* position (<<>> for a missing or null position) and confidence.          *)
(***************************************************************************)
DECISION_MAKER_TITLES == <<
    <<"c","e","o">>,
    <<"c","h","i","e","f"," ","e","x","e","c","u","t","i","v","e">>,
    <<"f","o","u","n","d","e","r">>,
    <<"c","o","-","f","o","u","n","d","e","r">>,
    <<"o","w","n","e","r">>,
    <<"p","r","e","s","i","d","e","n","t">>,
    <<"d","i","r","e","c","t","o","r">>,
    <<"v","p">>,
    <<"v","i","c","e"," ","p","r","e","s","i","d","e","n","t">>,
    <<"m","a","n","a","g","i","n","g">>,
    <<"m","a","n","a","g","e","r">>,
    <<"h","e","a","d">>,
    <<"l","e","a","d">>,
    <<"p","a","r","t","n","e","r">>
>>

\* the loop of lines 210-214: the 0-based index of the first title contained
\* in the lowercased position, len(DECISION_MAKER_TITLES) when there is none
RECURSIVE title_scan(_, _)
title_scan(position, i) ==
    IF i > Len(DECISION_MAKER_TITLES) THEN Len(DECISION_MAKER_TITLES)
    ELSE IF contains(DECISION_MAKER_TITLES[i], position) THEN i - 1
    ELSE title_scan(position, i + 1)

Positions ==
    {<<>>,
     <<"C","E","O">>,
     <<"C","o","-","F","o","u","n","d","e","r">>,
     <<"V","i","c","e"," ","P","r","e","s","i","d","e","n","t">>,
     <<"S","a","l","e","s"," ","L","e","a","d">>,
     <<"I","n","t","e","r","n">>}

\* the scan, computed once for each position of the inputs
title_scores == [p \in Positions |-> title_scan(lower(p), 1)]

title_score(email_data) == title_scores[email_data.position]

\* mutant: the confidence enters the tuple without its sign changed
scored_entry_ascending_confidence(email_data) ==
    <<title_score(email_data), email_data.confidence, email_data>>

\* the tuple appended to scored (line 215): (title_score, -confidence, email_data)
scored_entry(email_data) ==
    <<title_score(email_data), 0 - email_data.confidence, email_data>>

\* the order of scored.sort(key=lambda x: (x[0], x[1])): tuple comparison
key_less(a, b) == a[1] < b[1] \/ (a[1] = b[1] /\ a[2] < b[2])

\* list.sort is stable: an element goes after the elements whose key is
\* not greater than its own
RECURSIVE insert_sorted(_, _)
insert_sorted(sorted, x) ==
    IF sorted = <<>> THEN <<x>>
    ELSE IF key_less(x, Head(sorted))
         THEN <<x>> \o sorted
         ELSE <<Head(sorted)>> \o insert_sorted(Tail(sorted), x)

RECURSIVE sort_scored(_)
sort_scored(scored) ==
    IF scored = <<>> THEN <<>>
    ELSE insert_sorted(sort_scored(SubSeq(scored, 1, Len(scored) - 1)),
                       scored[Len(scored)])

DecisionMaker == <<"D","e","c","i","s","i","o","n"," ","M","a","k","e","r">>

NoHunterContact ==
    [present |-> FALSE, email |-> <<>>, position |-> <<>>, confidence_score |-> 0]

\* _pick_best_contact: None for no emails, else the Contact made of scored[0]
pick_best_contact(emails) ==
    IF emails = <<>> THEN NoHunterContact
    ELSE LET scored == [i \in 1..Len(emails) |-> scored_entry(emails[i])]
             best == sort_scored(scored)[1][3]
         IN  [present |-> TRUE, email |-> best.value,
              position |-> IF best.position # <<>> THEN best.position
                           ELSE DecisionMaker,
              confidence_score |-> best.confidence]

Confidences == {0, 50, 90}

MaxEmails == 3

\* the i-th record of a list has the value i
EmailLists ==
    UNION {[1..n -> Positions \X Confidences] : n \in 0..MaxEmails}

EmailRecords(l) ==
    [i \in 1..Len(l) |-> [value |-> i, position |-> l[i][1], confidence |-> l[i][2]]]

PickIdle ==
    /\ rt = IdleFrame
    /\ board = [prefill |-> 0, columns |-> {}, items |-> <<>>]
    /\ crm = [pc |-> "off"]
    /\ hunter = [pc |-> "off"]
    /\ mail = [pc |-> "off"]
    /\ scrape = [pc |-> "off"]
    /\ pipe = [pc |-> "off"]

PickInit ==
    /\ pick = [pc |-> "idle", emails |-> <<>>, contact |-> NoHunterContact]
    /\ PickIdle

PickCall ==
    /\ pick.pc = "idle"
    /\ \E l \in EmailLists :
         pick' = [pc |-> "done", emails |-> EmailRecords(l),
                  contact |-> pick_best_contact(EmailRecords(l))]
    /\ UNCHANGED <<rt, board, crm, hunter, mail, scrape, pipe>>

PickNext == PickCall

SpecPick == PickInit /\ [][PickNext]_vars

\* C9: for a list of candidates that is not empty, the contact selected is
\* one of the candidates, its title rank is not greater than that of any
\* candidate, and its confidence is not less than that of any candidate of
\* the same title rank.
C9_BestContact ==
    (pick.pc = "done" /\ pick.emails # <<>>) =>
        LET title_rank == [i \in 1..Len(pick.emails) |-> title_score(pick.emails[i])]
        IN  /\ pick.contact.present
            /\ \E b \in 1..Len(pick.emails) :
                  /\ pick.contact.email = pick.emails[b].value
                  /\ \A i \in 1..Len(pick.emails) :
                        /\ title_rank[b] <= title_rank[i]
                        /\ (title_rank[b] = title_rank[i]
                              => pick.emails[b].confidence >= pick.emails[i].confidence)

\* three candidates: the first outranked by title, the second by confidence
C9_Witness ==
    /\ pick.pc = "done"
    /\ Len(pick.emails) = 3
    /\ pick.contact.email = 3
    /\ title_score(pick.emails[1]) > title_score(pick.emails[3])
    /\ title_score(pick.emails[2]) = title_score(pick.emails[3])
    /\ pick.emails[2].confidence < pick.emails[3].confidence

(***************************************************************************)
(* ContactEnrichmentService in hunter mode.                                *)
(* hunter.log is what enrich_companies did, in order: the requests to the  *)
(* contacts provider, with the company (position in the input) they are    *)
(* for and how the provider answered, and the waits (op "sleep", in ms).   *)
(***************************************************************************)
AcmeSite ==
    <<"h","t","t","p","s",":","/","/","w","w","w",".","A","c","m","e",".","c","o","m","/","a","b","o","u","t">>

BetaSite == <<"b","e","t","a",".","i","o">>

starts_with(s, prefix) ==
    Len(s) >= Len(prefix) /\ SubSeq(s, 1, Len(prefix)) = prefix

RECURSIVE strip_slashes(_)
strip_slashes(s) ==
    IF s = <<>> THEN s
    ELSE IF Head(s) = "/" THEN strip_slashes(Tail(s))
    ELSE IF s[Len(s)] = "/" THEN strip_slashes(SubSeq(s, 1, Len(s) - 1))
    ELSE s

\* the index of the first "/" of s from position i on, Len(s) + 1 without one
RECURSIVE first_slash(_, _)
first_slash(s, i) ==
    IF i > Len(s) THEN i ELSE IF s[i] = "/" THEN i ELSE first_slash(s, i + 1)

\* _extract_domain on a website without query, fragment or port: the network
\* location of the URL, or its path when that is empty, without a leading
\* "www.", lowered and stripped of slashes
extract_domain(website) ==
    IF website = <<>> THEN <<>>
    ELSE LET https == <<"h","t","t","p","s",":","/","/">>
             http == <<"h","t","t","p",":","/","/">>
             rest == IF starts_with(website, https)
                     THEN SubSeq(website, Len(https) + 1, Len(website))
                     ELSE IF starts_with(website, http)
                          THEN SubSeq(website, Len(http) + 1, Len(website))
                          ELSE website
             cut == first_slash(rest, 1)
             netloc == SubSeq(rest, 1, cut - 1)
             path == SubSeq(rest, cut, Len(rest))
             domain == IF netloc # <<>> THEN netloc ELSE path
             bare == IF starts_with(domain, <<"w","w","w",".">>)
                     THEN SubSeq(domain, 5, Len(domain)) ELSE domain
         IN  strip_slashes(lower(bare))

\* DiscoveredCompany, reduced to name and website
AcmeCo == [name |-> <<"A","c","m","e">>, website |-> AcmeSite]

BetaCo == [name |-> <<"B","e","t","a">>, website |-> BetaSite]

GammaCo == [name |-> <<"G","a","m","m","a">>, website |-> <<>>]

\* the lists of companies enrich_companies is called with
CompanyLists ==
    {<<>>, <<AcmeCo>>, <<GammaCo>>, <<AcmeCo, BetaCo>>, <<BetaCo, AcmeCo>>,
     <<GammaCo, BetaCo>>, <<AcmeCo, GammaCo>>, <<GammaCo, GammaCo>>}

rate_limit_delay == 500

cooldown_429 == 5000

hunter_max_retries == 2

hunter_base_delay == 1000

MaxTimeouts == 3

hunter_frame ==
    retry_with_backoff(hunter_max_retries, hunter_base_delay,
                       default_max_delay, default_backoff_factor)

\* How the account request of check_account may end, and the data it gives:
\* "data" is a 200 with a data object that is not empty (the figures of
\* requests.searches, 0 when missing), "empty" a 200 with no or empty data.
AccountAnswers ==
    {[kind |-> "exception", available |-> 0, used |-> 0],
     [kind |-> "status", available |-> 0, used |-> 0],
     [kind |-> "empty", available |-> 0, used |-> 0],
     [kind |-> "data", available |-> 0, used |-> 0],
     [kind |-> "data", available |-> 25, used |-> 10],
     [kind |-> "data", available |-> 25, used |-> 25],
     [kind |-> "data", available |-> 25, used |-> 30]}

\* check_account: the data of a 200, {} otherwise; truthy is bool(account)
check_account(answer) ==
    [truthy |-> answer.kind = "data",
     available |-> IF answer.kind = "data" THEN answer.available ELSE 0,
     used |-> IF answer.kind = "data" THEN answer.used ELSE 0]

\* mutant: the batch is abandoned only below zero
no_credits_below_zero(account) ==
    account.truthy /\ account.available - account.used < 0

\* the test of lines 454-460
no_credits(account) ==
    account.truthy /\ account.available - account.used <= 0

\* How one invocation of _email_count may end: a 200 with total 3, with
\* total 0 or missing, with total null; another status; an exception other
\* than ConnectionError and Timeout; a ConnectionError or Timeout.
EmailCountKinds == {"positive", "zero", "null", "status", "garbled", "timeout"}

\* the value _email_count returns (None for a null total)
email_count_value(k) ==
    [is_none |-> k = "null", n |-> IF k = "positive" THEN 3 ELSE 0]

\* mutant: the paid search runs unless the count is negative
after_email_count_nonnegative(v) ==
    IF v.is_none THEN "TypeError" ELSE IF v.n >= 0 THEN "search" ELSE "skip"

\* `if email_count > 0` (line 247); None > 0 raises TypeError
after_email_count(v) ==
    IF v.is_none THEN "TypeError" ELSE IF v.n > 0 THEN "search" ELSE "skip"

\* How one invocation of _domain_search may end: a 200 with emails, a 200
\* without, 429, 401, 403, another status, an exception other than
\* ConnectionError and Timeout, a ConnectionError or Timeout.
DomainSearchKinds ==
    {"emails", "no_emails", "s429", "s401", "s403", "s500", "garbled", "timeout"}

\* the emails of a 200 of the domain search
SearchEmails ==
    <<[value |-> 1, position |-> <<"S","a","l","e","s"," ","L","e","a","d">>,
       confidence |-> 90],
      [value |-> 2, position |-> <<"C","E","O">>, confidence |-> 50]>>

\* mutant: the entry of a company without contact loses its name
empty_enriched_unnamed(company) ==
    [company_name |-> <<>>, contact |-> NoHunterContact]

empty_enriched(company) ==
    [company_name |-> company.name, contact |-> NoHunterContact]

\* mutant: a 429 is raised to the retry executor
domain_search_retrying_429(k) ==
    IF k \in {"timeout", "s429"} THEN "retryable" ELSE "return"

\* how one invocation of _domain_search ends for the wrapper: it re-raises
\* ConnectionError and Timeout (lines 194-195) and returns for every status
\* and every other exception
domain_search(k) == IF k = "timeout" THEN "retryable" ELSE "return"

Event(op, company, outcome, ms) ==
    [op |-> op, company |-> company, outcome |-> outcome, ms |-> ms]

Sleep(ms) == Event("sleep", 0, "", ms)

\* the waits the wrapper performed in the step from frame w to frame f
RetrySleeps(w, f) ==
    IF Len(f.sleeps) > Len(w.sleeps) THEN <<Sleep(f.sleeps[Len(f.sleeps)])>> ELSE <<>>

\* the loop of enrich_companies up to the next request: a company without a
\* domain is returned empty at once (lines 238-240)
RECURSIVE enrich_next(_)
enrich_next(h) ==
    LET i == Len(h.enriched) + 1
    IN  IF i > Len(h.companies) THEN [h EXCEPT !.pc = "done"]
        ELSE IF extract_domain(h.companies[i].website) = <<>>
             THEN enrich_next([h EXCEPT !.enriched =
                                 Append(@, empty_enriched(h.companies[i]))])
             ELSE [h EXCEPT !.pc = "email_count"]

HunterFrame(h) == IF h.pc \in {"email_count", "domain_search"} THEN hunter_frame
                  ELSE IdleFrame

HunterIdle ==
    /\ board = [prefill |-> 0, columns |-> {}, items |-> <<>>]
    /\ crm = [pc |-> "off"]
    /\ pick = [pc |-> "off"]
    /\ mail = [pc |-> "off"]
    /\ scrape = [pc |-> "off"]
    /\ pipe = [pc |-> "off"]

HunterInit ==
    /\ rt = IdleFrame
    /\ hunter = [pc |-> "idle", companies |-> <<>>, enriched |-> <<>>, log |-> <<>>,
                 account |-> check_account([kind |-> "exception", available |-> 0, used |-> 0]), timeouts |-> 0]
    /\ HunterIdle

\* enrich_companies up to its first request for a company (lines 450-468)
EnrichCompaniesCall ==
    /\ hunter.pc = "idle"
    /\ \E companies \in CompanyLists, answer \in AccountAnswers :
         LET account == check_account(answer)
             h == [hunter EXCEPT !.companies = companies, !.account = account,
                                 !.log = <<Event("account", 0, answer.kind, 0)>>]
         IN  /\ hunter' =
                   IF no_credits(account)
                   THEN [h EXCEPT !.pc = "done",
                           !.enriched = [i \in 1..Len(companies) |->
                                            empty_enriched(companies[i])]]
                   ELSE enrich_next(h)
             /\ rt' = HunterFrame(hunter')
    /\ UNCHANGED <<board, crm, pick, mail, scrape, pipe>>

HunterKinds(h, kinds) ==
    IF h.timeouts < MaxTimeouts THEN kinds ELSE kinds \ {"timeout"}

\* one invocation of _email_count, and _enrich_hunter up to its next request
EmailCountAttempt ==
    /\ hunter.pc = "email_count"
    /\ rt.status = "running"
    /\ \E k \in HunterKinds(hunter, EmailCountKinds) :
         LET i == Len(hunter.enriched) + 1
             f == wrapper(rt, IF k = "timeout" THEN "retryable" ELSE "return")
             h == [hunter EXCEPT
                     !.log = Append(@, Event("email_count", i, k, 0)) \o RetrySleeps(rt, f),
                     !.timeouts = IF k = "timeout" THEN @ + 1 ELSE @]
             slept == [h EXCEPT !.log = Append(@, Sleep(rate_limit_delay))]
             next == after_email_count(email_count_value(k))
         IN  CASE f.status = "running" -> hunter' = h /\ rt' = f
               [] f.status = "raised" ->
                    /\ hunter' = enrich_next([h EXCEPT !.enriched =
                                    Append(@, empty_enriched(h.companies[i]))])
                    /\ rt' = HunterFrame(hunter')
               [] OTHER ->
                    /\ hunter' =
                         IF next = "search" THEN [slept EXCEPT !.pc = "domain_search"]
                         ELSE enrich_next([slept EXCEPT !.enriched =
                                    Append(@, empty_enriched(h.companies[i]))])
                    /\ rt' = HunterFrame(hunter')
    /\ UNCHANGED <<board, crm, pick, mail, scrape, pipe>>

\* one invocation of _domain_search, and _enrich_hunter up to its next request
DomainSearchAttempt ==
    /\ hunter.pc = "domain_search"
    /\ rt.status = "running"
    /\ \E k \in HunterKinds(hunter, DomainSearchKinds) :
         LET i == Len(hunter.enriched) + 1
             f == wrapper(rt, domain_search(k))
             h == [hunter EXCEPT
                     !.log = Append(@, Event("domain_search", i, k, 0))
                             \o (IF k = "s429" THEN <<Sleep(cooldown_429)>> ELSE <<>>)
                             \o RetrySleeps(rt, f),
                     !.timeouts = IF k = "timeout" THEN @ + 1 ELSE @]
             emails == IF k = "emails" THEN SearchEmails ELSE <<>>
             contact == IF emails # <<>> THEN pick_best_contact(emails)
                        ELSE NoHunterContact
         IN  CASE f.status = "running" -> hunter' = h /\ rt' = f
               [] f.status = "raised" ->
                    /\ hunter' = enrich_next([h EXCEPT !.enriched =
                                    Append(@, empty_enriched(h.companies[i]))])
                    /\ rt' = HunterFrame(hunter')
               [] OTHER ->
                    /\ hunter' = enrich_next(
                         [h EXCEPT !.log = Append(@, Sleep(rate_limit_delay)),
                                   !.enriched = Append(@,
                                       [company_name |-> h.companies[i].name,
                                        contact |-> contact])])
                    /\ rt' = HunterFrame(hunter')
    /\ UNCHANGED <<board, crm, pick, mail, scrape, pipe>>

HunterNext == EnrichCompaniesCall \/ EmailCountAttempt \/ DomainSearchAttempt

SpecHunter == HunterInit /\ [][HunterNext]_vars

\* the answers of the email-count requests made for company i, in order
Prechecks(i) ==
    SelectSeq(hunter.log, LAMBDA e : e.op = "email_count" /\ e.company = i)

Searches(i) ==
    SelectSeq(hunter.log, LAMBDA e : e.op = "domain_search" /\ e.company = i)

\* C7: a domain search for a company comes after an email-count request for
\* that company that returned a count greater than 0; a company whose
\* precheck returned 0 or failed is returned without contact and no domain
\* search was made for it.
C7_PaidSearchAfterPrecheck ==
    /\ \A j \in 1..Len(hunter.log) :
          hunter.log[j].op = "domain_search" =>
              \E p \in 1..(j - 1) :
                  /\ hunter.log[p].op = "email_count"
                  /\ hunter.log[p].company = hunter.log[j].company
                  /\ hunter.log[p].outcome = "positive"
    /\ \A i \in 1..Len(hunter.enriched) :
          (/\ Prechecks(i) # <<>>
           /\ Prechecks(i)[Len(Prechecks(i))].outcome # "positive")
          => (~hunter.enriched[i].contact.present /\ Searches(i) = <<>>)

C7_Witness ==
    /\ hunter.pc = "done"
    /\ Len(hunter.enriched) = 2
    /\ Prechecks(1) # <<>>
    /\ Prechecks(1)[Len(Prechecks(1))].outcome = "zero"
    /\ ~hunter.enriched[1].contact.present
    /\ Searches(2) # <<>>
    /\ hunter.enriched[2].contact.present

\* C8: when the account probe reports remaining credits (available minus
\* used) of zero or fewer, every input company is returned without contact,
\* in order, and no email-count or domain-search request is made.
C8_NoCreditsAbandons ==
    (/\ hunter.pc # "idle"
     /\ hunter.log[1].outcome = "data"
     /\ hunter.account.available - hunter.account.used <= 0)
    => /\ hunter.pc = "done"
       /\ Len(hunter.enriched) = Len(hunter.companies)
       /\ \A i \in 1..Len(hunter.companies) :
             /\ hunter.enriched[i].company_name = hunter.companies[i].name
             /\ ~hunter.enriched[i].contact.present
       /\ \A j \in 1..Len(hunter.log) :
             hunter.log[j].op \notin {"email_count", "domain_search"}

C8_Witness ==
    /\ hunter.pc = "done"
    /\ hunter.log[1].outcome = "data"
    /\ hunter.account.available - hunter.account.used = 0
    /\ hunter.account.available > 0
    /\ Len(hunter.companies) = 2
    /\ Len(hunter.enriched) = 2
    /\ \A i \in 1..2 : extract_domain(hunter.companies[i].website) # <<>>

(***************************************************************************)
(* Text values used as inputs.                                             *)
(***************************************************************************)
UnknownCompany == <<"U","n","k","n","o","w","n"," ","C","o","m","p","a","n","y">>

Acme == <<"A","c","m","e">>

ACME == <<"A","C","M","E">>

Beta == <<"B","e","t","a">>

JoMail == <<"j","o","@","x",".","i","o">>

JOMAIL == <<"J","O","@","X",".","I","O">>

NoContact == [present |-> FALSE, email |-> <<>>]

Contact(email) == [present |-> TRUE, email |-> email]

\* EnrichedCompany, reduced to the fields that the duplicate check reads:
\* two companies whose names differ by case only, two whose contact emails
\* differ by case only, one without a name
EnrichedCompany ==
    {[company_name |-> Acme, contact |-> Contact(JoMail)],
     [company_name |-> ACME, contact |-> NoContact],
     [company_name |-> Beta, contact |-> Contact(JOMAIL)],
     [company_name |-> <<>>, contact |-> Contact(<<>>)]}

\* arguments (company_name, email) of a direct call of check_duplicate
CheckArgs ==
    {<<Acme, <<>>>>, <<ACME, JoMail>>, <<Beta, JOMAIL>>, <<<<>>, JoMail>>}

(***************************************************************************)
(* The remote board (monday.com).  It holds `prefill` items that existed   *)
(* before and whose name and column texts equal none of the input values,  *)
(* followed by the items in `items`.  An item is [id, name, column_values];*)
(* of the column values the model keeps the text of "Contact Email" (<<>>  *)
(* when the column is not set) and the checkbox "Email Sent".              *)
(* `columns` is the set of lowercased column titles of the board.          *)
(***************************************************************************)
ItemsPageLimit == 500

LEAD_COLUMNS == {"contact email", "email sent"}

KnownBoard == "B1"

BoardIds == {"", KnownBoard, "B9"}

MaxFaults == 1

\* The pages items_page(limit: 500) may answer: every item when the board
\* holds at most 500, otherwise any 500 of them.  A page is given by the
\* positions of `items` it shows.
items_page(b) ==
    LET total == b.prefill + Len(b.items)
        over == Max(0, total - ItemsPageLimit)
    IN  {V \in SUBSET (1..Len(b.items)) :
            /\ Len(b.items) - Cardinality(V) <= over
            /\ over - (Len(b.items) - Cardinality(V)) <= b.prefill}

RECURSIVE SelectItems(_, _, _)
SelectItems(items, V, i) ==
    IF i > Len(items) THEN <<>>
    ELSE (IF i \in V THEN <<items[i]>> ELSE <<>>) \o SelectItems(items, V, i + 1)


(***************************************************************************)
(* MondayCRMService.                                                       *)
(* crm.pc is the remote call the handler in progress is at ("idle" between *)
(* handlers).  The record keeps what the handler did: the requests sent to *)
(* the remote, retries included, the ids of the items the remote created   *)
(* for it, and its result.  prev_company and prev_id are the argument and  *)
(* the returned id of the create_lead call before the current one.         *)
(***************************************************************************)
MaxCalls == 2

execute_query_max_retries == 3

execute_query_base_delay == 2000

\* What one requests.post of _execute_query may do:
\*   "ok"     200 and data;
\*   "lost"   a RequestException, the remote never saw the request;
\*   "late"   a RequestException (read timeout), the remote applied the request;
\*   "error"  a status other than 200, or "errors" in the answer: Exception.
WireKinds == {"ok", "lost", "late", "error"}

\* the answers left to the network once it failed MaxFaults requests of a run
Wire(c, kinds) == IF c.faults < MaxFaults THEN kinds ELSE {"ok"}

Sent(c, request, failed) ==
    [c EXCEPT !.requests = Append(@, request),
              !.faults = IF failed THEN @ + 1 ELSE @]

\* One invocation of _execute_query under its decorator
\* (retryable_exceptions = RequestException, ConnectionError).
execute_query(frame, k) ==
    wrapper(frame, CASE k = "ok" -> "return"
                     [] k \in {"lost", "late"} -> "retryable"
                     [] OTHER -> "other")

execute_query_frame ==
    retry_with_backoff(execute_query_max_retries, execute_query_base_delay,
                       default_max_delay, default_backoff_factor)

NoResult == [kind |-> "pending", id |-> 0, flag |-> FALSE]

NoCompany == [company_name |-> <<>>, contact |-> NoContact]

\* create_leads_batch in progress: its arguments, the companies create_lead
\* was called with so far, what each call ended with, and created_ids
NoBatch ==
    [pc |-> "idle", companies |-> <<>>, board_id |-> "", attempted |-> <<>>,
     outcomes |-> <<>>, created_ids |-> <<>>]

\* create_board in progress: the id the remote gave the new board, the
\* columns whose creation ended, each with how it ended, and the id returned
NoCreateBoard == [board_id |-> "", columns |-> <<>>, returned |-> ""]

IdleService(board_id) ==
    [pc |-> "idle", self_board_id |-> board_id, ncalls |-> 0, op |-> "none",
     company |-> NoCompany, board_id |-> "", company_name |-> <<>>, email |-> <<>>,
     page |-> <<>>, listed |-> FALSE, duplicate |-> FALSE,
     requests |-> <<>>, created |-> <<>>, result |-> NoResult, faults |-> 0,
     prev_company |-> NoCompany, prev_id |-> 0, batch |-> NoBatch,
     cb |-> NoCreateBoard, item_id |-> 0]

\* the texts of the column values of an item, None read as ""
column_texts(item) == {item.column_values[c] : c \in DOMAIN item.column_values}

\* mutant: the comparison keeps the case
check_duplicate_case_sensitive(items, company_name, email) ==
    \E i \in 1..Len(items) :
        \/ items[i].name = company_name
        \/ email # <<>> /\ \E x \in column_texts(items[i]) : x = email

\* check_duplicate, the scan of the items listed (lines 208-223)
RECURSIVE check_duplicate(_, _, _)
check_duplicate(items, company_name, email) ==
    IF items = <<>> THEN FALSE
    ELSE IF lower(Head(items).name) = lower(company_name) THEN TRUE
    ELSE IF email # <<>>
            /\ \E x \in column_texts(Head(items)) : lower(x) = lower(email)
         THEN TRUE
    ELSE check_duplicate(Tail(items), company_name, email)

\* mutant: the lead is created whatever the duplicate check says
create_lead_ignoring_check(c, dup) ==
    [c EXCEPT !.listed = TRUE, !.duplicate = dup, !.pc = "columns"]

\* create_lead once check_duplicate returned (lines 247-254)
create_lead_checked(c, dup) ==
    IF dup
    THEN [c EXCEPT !.listed = TRUE, !.duplicate = dup, !.pc = "idle",
                   !.result = [kind |-> "none", id |-> 0, flag |-> FALSE]]
    ELSE [c EXCEPT !.listed = TRUE, !.duplicate = dup, !.pc = "columns"]

\* the column values create_lead sends (lines 256-306), for the columns kept:
\* the checkbox "Email Sent" reads <<>> while it is not checked
column_values(columns, company) ==
    LET D == {x \in columns :
                \/ x = "email sent"
                \/ /\ x = "contact email"
                   /\ company.contact.present
                   /\ company.contact.email # <<>>}
    IN  [x \in D |-> IF x = "contact email" THEN company.contact.email ELSE <<>>]

\* get_board_columns: the lowercased titles of the board, none for a board
\* the remote does not know
get_board_columns(b, board_id) == IF board_id = KnownBoard THEN b.columns ELSE {}

NewCall(c, op, company, board_id, name, email, page) ==
    [c EXCEPT !.ncalls = @ + 1, !.op = op, !.company = company,
              !.board_id = board_id, !.company_name = name, !.email = email,
              !.page = page, !.listed = FALSE, !.duplicate = FALSE,
              !.requests = <<>>, !.created = <<>>, !.result = NoResult,
              !.prev_company = IF c.op = "create_lead" THEN c.company ELSE NoCompany,
              !.prev_id = IF c.op = "create_lead" /\ c.result.kind = "id"
                          THEN c.result.id ELSE 0]

Pages(b, board_id) == IF board_id = KnownBoard THEN items_page(b) ELSE {{}}

\* mutant: create_lead goes on without a board id
create_lead_entry_unguarded(c, board_id) ==
    [c EXCEPT !.pc = "items_page"]

\* the test of the board id (lines 236-239): ValueError without one
create_lead_entry(c, board_id) ==
    IF board_id = "" THEN [c EXCEPT !.result.kind = "raised"]
    ELSE [c EXCEPT !.pc = "items_page"]

\* create_lead up to its first request (lines 236-247 and 182-203), on board
\* b: one record for each page the items query may be answered with
StartLead(c, company, arg, b) ==
    LET board_id == IF arg # "" THEN arg ELSE c.self_board_id
        name == IF company.company_name # <<>> THEN company.company_name
                ELSE UnknownCompany
        email == IF company.contact.present /\ company.contact.email # <<>>
                 THEN company.contact.email ELSE <<>>
    IN  {create_lead_entry(NewCall(c, "create_lead", company, board_id, name, email,
                                   SelectItems(b.items, V, 1)), board_id) :
            V \in Pages(b, board_id)}

\* mutant: the id is appended without the test `if item_id`
after_create_lead_unfiltered(batch, result) ==
    [batch EXCEPT !.outcomes = Append(@, result),
                  !.created_ids = IF result.kind # "raised" THEN Append(@, result.id)
                                  ELSE @]

\* the body of the loop of create_leads_batch once create_lead ended
\* (lines 369-374): an exception is logged, None is left out
after_create_lead(batch, result) ==
    [batch EXCEPT !.outcomes = Append(@, result),
                  !.created_ids = IF result.kind = "id" THEN Append(@, result.id)
                                  ELSE @]

\* What the service goes on with when a handler ended with record c on board
\* b: nothing more outside a batch; within create_leads_batch the loop takes
\* the next company up to its first request, or returns created_ids.
RECURSIVE Finish(_, _), batch_loop(_, _)
Finish(c, b) ==
    IF c.batch.pc # "running" THEN {c}
    ELSE batch_loop([c EXCEPT !.batch = after_create_lead(@, c.result)], b)

batch_loop(c, b) ==
    LET i == Len(c.batch.outcomes) + 1
    IN  IF i > Len(c.batch.companies)
        THEN {[c EXCEPT !.batch.pc = "returned"]}
        ELSE UNION {IF s.pc = "idle" THEN Finish(s, b) ELSE {s} :
                      s \in {[x EXCEPT !.ncalls = c.ncalls,
                                       !.batch.attempted =
                                           Append(@, c.batch.companies[i])] :
                               x \in StartLead(c, c.batch.companies[i],
                                               c.batch.board_id, b)}}

\* what follows the answer of get_board_columns: create_lead builds the
\* column values and sends create_item (lines 254-323); update_email_sent
\* returns when the board has no "email sent" column (lines 332-335)
after_get_board_columns(c, columns) ==
    IF c.op # "update_email_sent" THEN [c EXCEPT !.pc = "create_item"]
    ELSE IF "email sent" \notin columns
         THEN [c EXCEPT !.pc = "idle",
                        !.result = [kind |-> "none", id |-> 0, flag |-> FALSE]]
    ELSE [c EXCEPT !.pc = "change_values"]

\* the frame of the request the service is at
CrmFrame(c) == IF c.pc = "idle" THEN IdleFrame ELSE execute_query_frame

\* create_lead called on its own, up to its first request
CreateLeadCall ==
    /\ crm.pc = "idle"
    /\ crm.ncalls < MaxCalls
    /\ \E company \in EnrichedCompany, arg \in BoardIds :
         crm' \in StartLead([crm EXCEPT !.batch = NoBatch], company, arg, board)
    /\ rt' = CrmFrame(crm')
    /\ UNCHANGED <<board, hunter, pick, mail, scrape, pipe>>

\* check_duplicate called on its own, up to its request (lines 182-203)
CheckDuplicateCall ==
    /\ crm.pc = "idle"
    /\ crm.ncalls < MaxCalls
    /\ \E args \in CheckArgs, arg \in BoardIds :
         LET board_id == IF arg # "" THEN arg ELSE crm.self_board_id
             name == args[1]
             email == args[2]
         IN  \E V \in Pages(board, board_id) :
               LET c == NewCall([crm EXCEPT !.batch = NoBatch], "check_duplicate",
                                NoCompany, board_id, name,
                                email, SelectItems(board.items, V, 1))
               IN  IF name = <<>>
                   THEN /\ crm' = [c EXCEPT !.result =
                                     [kind |-> "bool", id |-> 0, flag |-> FALSE]]
                        /\ rt' = rt
                   ELSE /\ crm' = [c EXCEPT !.pc = "items_page"]
                        /\ rt' = execute_query_frame
    /\ UNCHANGED <<board, hunter, pick, mail, scrape, pipe>>

\* the items query of check_duplicate and what follows its answer
ItemsPageAttempt ==
    /\ crm.pc = "items_page"
    /\ rt.status = "running"
    /\ \E k \in Wire(crm, {"ok", "lost", "error"}) :
         LET f == execute_query(rt, k)
             c == Sent(crm, "items_page", k # "ok")
             dup == check_duplicate(c.page, c.company_name, c.email)
         IN  CASE f.status = "running" -> crm' = c /\ rt' = f
               [] f.status = "raised" ->
                    /\ crm' \in Finish([c EXCEPT !.pc = "idle",
                                                 !.result.kind = "raised"], board)
                    /\ rt' = CrmFrame(crm')
               [] OTHER ->
                    IF c.op = "check_duplicate"
                    THEN /\ crm' = [c EXCEPT !.pc = "idle", !.listed = TRUE,
                                      !.duplicate = dup,
                                      !.result = [kind |-> "bool", id |-> 0, flag |-> dup]]
                         /\ rt' = IdleFrame
                    ELSE /\ crm' \in (IF create_lead_checked(c, dup).pc = "idle"
                                      THEN Finish(create_lead_checked(c, dup), board)
                                      ELSE {create_lead_checked(c, dup)})
                         /\ rt' = CrmFrame(crm')
    /\ UNCHANGED <<board, hunter, pick, mail, scrape, pipe>>

\* the columns query of get_board_columns (lines 171-178)
ColumnsAttempt ==
    /\ crm.pc = "columns"
    /\ rt.status = "running"
    /\ \E k \in Wire(crm, {"ok", "lost", "error"}) :
         LET f == execute_query(rt, k)
             c == Sent(crm, "columns", k # "ok")
         IN  CASE f.status = "running" -> crm' = c /\ rt' = f
               [] f.status = "raised" ->
                    /\ crm' \in Finish([c EXCEPT !.pc = "idle",
                                                 !.result.kind = "raised"], board)
                    /\ rt' = CrmFrame(crm')
               [] OTHER ->
                    LET x == after_get_board_columns(
                                 c, get_board_columns(board, c.board_id))
                    IN  /\ crm' \in (IF x.pc = "idle" THEN Finish(x, board) ELSE {x})
                        /\ rt' = CrmFrame(crm')
    /\ UNCHANGED <<board, hunter, pick, mail, scrape, pipe>>

\* the create_item mutation (lines 308-327).  The remote creates the item
\* when the request reaches it ("ok", "late"); a board it does not know
\* answers with "errors".
CreateItemAttempt ==
    /\ crm.pc = "create_item"
    /\ rt.status = "running"
    /\ \E k \in (IF crm.board_id = KnownBoard THEN Wire(crm, WireKinds)
                 ELSE (Wire(crm, {"lost"}) \ {"ok"}) \cup {"error"}) :
         LET f == execute_query(rt, k)
             id == Len(board.items) + 1
             item == [id |-> id, name |-> crm.company_name,
                      column_values |->
                          column_values(get_board_columns(board, crm.board_id),
                                        crm.company)]
             applied == k \in {"ok", "late"}
             c == [Sent(crm, "create_item",
                        k # "ok" /\ ~(k = "error" /\ crm.board_id # KnownBoard)) EXCEPT
                      !.created = IF applied THEN Append(@, id) ELSE @]
         IN  /\ board' = IF applied THEN [board EXCEPT !.items = Append(@, item)]
                         ELSE board
             /\ CASE f.status = "running" -> crm' = c
                  [] f.status = "raised" ->
                       crm' \in Finish([c EXCEPT !.pc = "idle",
                                                !.result.kind = "raised"], board')
                  [] OTHER ->
                       crm' \in Finish([c EXCEPT !.pc = "idle",
                                          !.result = [kind |-> "id", id |-> id,
                                                      flag |-> FALSE]], board')
             /\ rt' = IF f.status = "running" THEN f ELSE CrmFrame(crm')
    /\ UNCHANGED <<hunter, pick, mail, scrape, pipe>>

Prefills == {0, ItemsPageLimit - 1, ItemsPageLimit}

Init ==
    /\ rt = IdleFrame
    /\ \E n \in Prefills, cols \in {LEAD_COLUMNS, {}} :
         board = [prefill |-> n, columns |-> cols, items |-> <<>>]
    /\ \E b \in {"", KnownBoard} : crm = IdleService(b)
    /\ hunter = [pc |-> "off"]
    /\ pick = [pc |-> "off"]
    /\ mail = [pc |-> "off"]
    /\ scrape = [pc |-> "off"]
    /\ pipe = [pc |-> "off"]

Next ==
    \/ CreateLeadCall
    \/ CheckDuplicateCall
    \/ ItemsPageAttempt
    \/ ColumnsAttempt
    \/ CreateItemAttempt

Spec == Init /\ [][Next]_vars


(***************************************************************************)
(* update_email_sent.                                                      *)
(***************************************************************************)
\* the text a checked checkbox reads
Checked == <<"v">>

\* mutant: the mutation also clears the contact email
email_sent_values_clearing(columns) ==
    [x \in {"email sent", "contact email"} \cap columns |->
        IF x = "email sent" THEN Checked ELSE <<>>]

\* the column values update_email_sent sends (line 348)
email_sent_values(columns) == [x \in {"email sent"} |-> Checked]

\* the remote applying change_multiple_column_values to an item: the columns
\* named take the values sent, every other column keeps its value
change_multiple_column_values(item, values) ==
    [item EXCEPT !.column_values =
        [x \in DOMAIN item.column_values \cup DOMAIN values |->
            IF x \in DOMAIN values THEN values[x] ELSE item.column_values[x]]]

\* update_email_sent up to its first request (lines 331-332), for the id of
\* an item of the board
UpdateEmailSentCall ==
    /\ crm.pc = "idle"
    /\ crm.ncalls < MaxCalls
    /\ \E item_id \in 1..Len(board.items), arg \in BoardIds :
         LET board_id == IF arg # "" THEN arg ELSE crm.self_board_id
         IN  crm' = [NewCall([crm EXCEPT !.batch = NoBatch], "update_email_sent",
                             NoCompany, board_id, <<>>, <<>>, <<>>) EXCEPT
                        !.item_id = item_id, !.pc = "columns"]
    /\ rt' = execute_query_frame
    /\ UNCHANGED <<board, hunter, pick, mail, scrape, pipe>>

\* the change_multiple_column_values mutation (lines 337-352).  The remote
\* changes the item when the request reaches it ("ok", "late").
ChangeValuesAttempt ==
    /\ crm.pc = "change_values"
    /\ rt.status = "running"
    /\ \E k \in Wire(crm, WireKinds) :
         LET f == execute_query(rt, k)
             c == Sent(crm, "change_values", k # "ok")
             values == email_sent_values(get_board_columns(board, crm.board_id))
         IN  /\ board' = IF k \in {"ok", "late"}
                         THEN [board EXCEPT !.items[crm.item_id] =
                                  change_multiple_column_values(@, values)]
                         ELSE board
             /\ CASE f.status = "running" -> crm' = c /\ rt' = f
                  [] f.status = "raised" ->
                       /\ crm' = [c EXCEPT !.pc = "idle", !.result.kind = "raised"]
                       /\ rt' = IdleFrame
                  [] OTHER ->
                       /\ crm' = [c EXCEPT !.pc = "idle",
                                     !.result = [kind |-> "none", id |-> 0,
                                                 flag |-> FALSE]]
                       /\ rt' = IdleFrame
    /\ UNCHANGED <<hunter, pick, mail, scrape, pipe>>

FlagNext ==
    \/ Next
    \/ UpdateEmailSentCall
    \/ ChangeValuesAttempt

SpecFlag == Init /\ [][FlagNext]_vars

email_sent_checked(item) ==
    "email sent" \in DOMAIN item.column_values
        /\ item.column_values["email sent"] = Checked

\* C30: an item is created with "Email Sent" not checked; afterwards an item
\* of the board changes only in a request of update_email_sent for its id,
\* and then only its "Email Sent" value changes, to checked: no step unchecks
\* it, removes an item, or changes the name or another column of an item.
C30_EmailSentOnlyChecked ==
    [][/\ Len(board'.items) >= Len(board.items)
       /\ \A i \in 1..Len(board.items) :
            \/ board'.items[i] = board.items[i]
            \/ /\ crm.op = "update_email_sent"
               /\ crm.pc = "change_values"
               /\ crm.item_id = i
               /\ board'.items[i].id = board.items[i].id
               /\ board'.items[i].name = board.items[i].name
               /\ DOMAIN board'.items[i].column_values =
                      DOMAIN board.items[i].column_values
               /\ \A x \in DOMAIN board.items[i].column_values \ {"email sent"} :
                      board'.items[i].column_values[x] =
                          board.items[i].column_values[x]
               /\ email_sent_checked(board'.items[i])
       /\ \A i \in (Len(board.items) + 1)..Len(board'.items) :
            ~email_sent_checked(board'.items[i])]_vars

\* update_email_sent returned for an item that keeps its contact email and
\* now reads checked
C30_Witness ==
    /\ crm.op = "update_email_sent"
    /\ crm.pc = "idle"
    /\ crm.result.kind = "none"
    /\ crm.item_id \in 1..Len(board.items)
    /\ email_sent_checked(board.items[crm.item_id])
    /\ "contact email" \in DOMAIN board.items[crm.item_id].column_values
    /\ board.items[crm.item_id].column_values["contact email"] = JoMail


(***************************************************************************)
(* create_leads_batch.                                                     *)
(***************************************************************************)
AcmeLead == [company_name |-> Acme, contact |-> Contact(JoMail)]

AcmeUpperLead == [company_name |-> ACME, contact |-> NoContact]

BetaLead == [company_name |-> Beta, contact |-> Contact(JOMAIL)]

\* the lists create_leads_batch is called with
BatchLists ==
    {<<>>, <<AcmeLead>>, <<AcmeLead, BetaLead>>, <<AcmeLead, AcmeUpperLead>>,
     <<BetaLead, AcmeLead, AcmeUpperLead>>}

MaxBatches == 1

\* create_leads_batch up to its first request (lines 365-370)
CreateLeadsBatchCall ==
    /\ crm.pc = "idle"
    /\ crm.ncalls < MaxBatches
    /\ \E companies \in BatchLists, arg \in BoardIds :
         LET board_id == IF arg # "" THEN arg ELSE crm.self_board_id
             c == [crm EXCEPT !.ncalls = @ + 1,
                     !.batch = [NoBatch EXCEPT !.pc = "running",
                                               !.companies = companies,
                                               !.board_id = board_id]]
         IN  crm' \in batch_loop(c, board)
    /\ rt' = CrmFrame(crm')
    /\ UNCHANGED <<board, hunter, pick, mail, scrape, pipe>>

BatchNext ==
    \/ CreateLeadsBatchCall
    \/ ItemsPageAttempt
    \/ ColumnsAttempt
    \/ CreateItemAttempt

SpecBatch == Init /\ [][BatchNext]_vars

RECURSIVE ids_of(_)
ids_of(outcomes) ==
    IF outcomes = <<>> THEN <<>>
    ELSE (IF Head(outcomes).kind = "id" THEN <<Head(outcomes).id>> ELSE <<>>)
         \o ids_of(Tail(outcomes))

\* C12: create_leads_batch calls create_lead for the companies of its input
\* in input order, one call per company; when it returns it has called it
\* for every company, and the ids it returns are those of the calls that
\* returned an id, in input order.
C12_BatchContinues ==
    crm.batch.pc # "idle" =>
        /\ Len(crm.batch.attempted) <= Len(crm.batch.companies)
        /\ crm.batch.attempted =
               SubSeq(crm.batch.companies, 1, Len(crm.batch.attempted))
        /\ Len(crm.batch.outcomes) \in
               {Len(crm.batch.attempted), Len(crm.batch.attempted) - 1}
        /\ crm.batch.created_ids = ids_of(crm.batch.outcomes)
        /\ crm.batch.pc = "returned" =>
               /\ crm.batch.attempted = crm.batch.companies
               /\ Len(crm.batch.outcomes) = Len(crm.batch.companies)

C12_Witness ==
    /\ crm.batch.pc = "returned"
    /\ Len(crm.batch.companies) = 3
    /\ crm.batch.outcomes[1].kind = "raised"
    /\ crm.batch.outcomes[2].kind = "id"
    /\ crm.batch.outcomes[3].kind = "none"
    /\ crm.batch.created_ids = <<crm.batch.outcomes[2].id>>

(***************************************************************************)
(* create_board and _create_columns.                                       *)
(***************************************************************************)
\* the titles of LEAD_COLUMNS, in order
LEAD_COLUMN_TITLES ==
    <<"Website", "Contact Name", "Contact Email", "Contact Position",
      "Company Description", "Region", "Lead Source", "Status", "Date Added",
      "Email Sent">>

NewBoard == "B2"

\* mutant: a column whose creation failed ends create_board
after_create_column_stopping(c, title, failed) ==
    LET c1 == [c EXCEPT !.cb.columns =
                  Append(@, [title |-> title,
                             outcome |-> IF failed THEN "failed" ELSE "created"])]
    IN  IF failed THEN [c1 EXCEPT !.pc = "idle", !.result.kind = "raised"]
        ELSE IF Len(c1.cb.columns) < Len(LEAD_COLUMN_TITLES) THEN c1
        ELSE [c1 EXCEPT !.pc = "idle", !.self_board_id = c1.cb.board_id,
                        !.cb.returned = c1.cb.board_id, !.result.kind = "board"]

\* the loop of _create_columns once the request for a column ended (lines
\* 133-153), and the end of create_board (lines 126-127)
after_create_column(c, title, failed) ==
    LET c1 == [c EXCEPT !.cb.columns =
                  Append(@, [title |-> title,
                             outcome |-> IF failed THEN "failed" ELSE "created"])]
    IN  IF Len(c1.cb.columns) < Len(LEAD_COLUMN_TITLES) THEN c1
        ELSE [c1 EXCEPT !.pc = "idle", !.self_board_id = c1.cb.board_id,
                        !.cb.returned = c1.cb.board_id, !.result.kind = "board"]

MaxBoards == 1

\* create_board up to its first request
CreateBoardCall ==
    /\ crm.pc = "idle"
    /\ crm.ncalls < MaxBoards
    /\ crm' = [crm EXCEPT !.ncalls = @ + 1, !.op = "create_board",
                          !.pc = "create_board", !.requests = <<>>,
                          !.created = <<>>, !.result = NoResult,
                          !.batch = NoBatch, !.cb = NoCreateBoard]
    /\ rt' = execute_query_frame
    /\ UNCHANGED <<board, hunter, pick, mail, scrape, pipe>>

\* the create_board mutation (lines 98-121)
CreateBoardAttempt ==
    /\ crm.pc = "create_board"
    /\ rt.status = "running"
    /\ \E k \in Wire(crm, {"ok", "lost", "error"}) :
         LET f == execute_query(rt, k)
             c == Sent(crm, "create_board", k # "ok")
         IN  CASE f.status = "running" -> crm' = c /\ rt' = f
               [] f.status = "raised" ->
                    /\ crm' = [c EXCEPT !.pc = "idle", !.result.kind = "raised"]
                    /\ rt' = IdleFrame
               [] OTHER ->
                    /\ crm' = [c EXCEPT !.pc = "create_column",
                                        !.cb.board_id = NewBoard]
                    /\ rt' = execute_query_frame
    /\ UNCHANGED <<board, hunter, pick, mail, scrape, pipe>>

\* one create_column mutation of _create_columns (lines 134-153); the
\* remote may refuse a column (one that exists already) with "errors"
CreateColumnAttempt ==
    /\ crm.pc = "create_column"
    /\ rt.status = "running"
    /\ \E k \in Wire(crm, {"ok", "lost"}) \cup {"error"} :
         LET f == execute_query(rt, k)
             title == LEAD_COLUMN_TITLES[Len(crm.cb.columns) + 1]
             c == Sent(crm, title, k = "lost")
         IN  /\ crm' = IF f.status = "running" THEN c
                       ELSE after_create_column(c, title, f.status = "raised")
             /\ rt' = IF f.status = "running" THEN f ELSE CrmFrame(crm')
    /\ UNCHANGED <<board, hunter, pick, mail, scrape, pipe>>

BoardNext == CreateBoardCall \/ CreateBoardAttempt \/ CreateColumnAttempt

\* the service as constructed, with or without a configured board id
BoardInit ==
    /\ rt = IdleFrame
    /\ board = [prefill |-> 0, columns |-> {}, items |-> <<>>]
    /\ \E b \in {"", KnownBoard} : crm = IdleService(b)
    /\ hunter = [pc |-> "off"]
    /\ pick = [pc |-> "off"]
    /\ mail = [pc |-> "off"]
    /\ scrape = [pc |-> "off"]
    /\ pipe = [pc |-> "off"]

SpecBoard == BoardInit /\ [][BoardNext]_vars

\* the titles of the columns a creation request was sent for, in the order
\* of their first request
RECURSIVE requested_titles(_)
requested_titles(requests) ==
    IF requests = <<>> THEN <<>>
    ELSE LET rest == requested_titles(SubSeq(requests, 1, Len(requests) - 1))
             x == requests[Len(requests)]
         IN  IF x = "create_board" \/ (\E i \in 1..Len(rest) : rest[i] = x)
             THEN rest ELSE Append(rest, x)

\* C25: once the board is created, create_board does not end with an
\* exception; when it ends it has sent a creation request for each of the
\* ten columns, in order, whatever the earlier ones ended with, it returns
\* the id of the new board and that id is the instance's board id.
C25_ColumnsBestEffort ==
    (crm.op = "create_board" /\ crm.cb.board_id # "") =>
        /\ crm.result.kind # "raised"
        /\ requested_titles(crm.requests) =
               SubSeq(LEAD_COLUMN_TITLES, 1, Len(requested_titles(crm.requests)))
        /\ crm.pc = "idle" =>
               /\ requested_titles(crm.requests) = LEAD_COLUMN_TITLES
               /\ Len(crm.cb.columns) = Len(LEAD_COLUMN_TITLES)
               /\ crm.result.kind = "board"
               /\ crm.cb.returned = crm.cb.board_id
               /\ crm.self_board_id = crm.cb.board_id

C25_Witness ==
    /\ crm.op = "create_board"
    /\ crm.pc = "idle"
    /\ crm.result.kind = "board"
    /\ crm.cb.columns[1].outcome = "failed"
    /\ crm.cb.columns[2].outcome = "failed"
    /\ crm.cb.columns[10].outcome = "created"
    /\ crm.self_board_id = NewBoard

\* The same program on a network that fails no request.
Reliable == crm'.faults = 0

NextReliable ==
    \/ CreateLeadCall /\ Reliable
    \/ CheckDuplicateCall /\ Reliable
    \/ ItemsPageAttempt /\ Reliable
    \/ ColumnsAttempt /\ Reliable
    \/ CreateItemAttempt /\ Reliable

SpecReliable == Init /\ [][NextReliable]_vars

contact_email(item) ==
    IF "contact email" \in DOMAIN item.column_values
    THEN item.column_values["contact email"] ELSE <<>>

\* C1: on a board that started without duplicates and that only this client
\* writes, no two items have the same name ignoring case and no two items
\* carry the same contact email, whatever the number of items it started with.
C1_NoDuplicateItems ==
    \A i, j \in 1..Len(board.items) :
        i < j =>
            /\ lower(board.items[i].name) # lower(board.items[j].name)
            /\ \/ contact_email(board.items[i]) = <<>>
               \/ contact_email(board.items[i]) # contact_email(board.items[j])

\* C2: create_lead sends the items query of the duplicate check before any
\* other request; when the check reports a duplicate it returns None having
\* sent no columns query and no create_item; and a create_lead for the
\* company of the create_lead before it, which returned an id, returns None
\* when the listing it gets shows that item.
C2_DuplicateCheckFirst ==
    crm.op = "create_lead" =>
        /\ \A i \in 1..Len(crm.requests) :
              /\ (crm.requests[i] # "items_page" => crm.listed /\ ~crm.duplicate)
              /\ (i > 1 /\ crm.requests[i] = "items_page"
                    => crm.requests[i - 1] = "items_page")
        /\ (crm.listed /\ crm.duplicate) =>
              /\ crm.pc = "idle"
              /\ crm.result.kind = "none"
              /\ crm.created = <<>>
              /\ \A i \in 1..Len(crm.requests) : crm.requests[i] = "items_page"
        /\ (/\ crm.listed
            /\ crm.prev_id # 0
            /\ crm.prev_company = crm.company
            /\ \E i \in 1..Len(crm.page) : crm.page[i].id = crm.prev_id)
           => crm.result.kind = "none"

C2_Witness ==
    /\ crm.op = "create_lead"
    /\ crm.listed
    /\ crm.prev_id # 0
    /\ crm.prev_company = crm.company
    /\ \E i \in 1..Len(crm.page) : crm.page[i].id = crm.prev_id
    /\ crm.result.kind = "none"
    /\ crm.requests = <<"items_page">>

\* C3: one create_lead call makes the remote create at most one item, also
\* when the create_item request is retried after a transport failure.
C3_AtMostOneItem ==
    crm.op = "create_lead" => Len(crm.created) <= 1

\* some item's name equals the company name ignoring case, or an email was
\* supplied and some column text of some item equals it ignoring case
Matches(items, company_name, email) ==
    \E i \in 1..Len(items) :
        \/ lower(items[i].name) = lower(company_name)
        \/ /\ email # <<>>
           /\ \E x \in column_texts(items[i]) : lower(x) = lower(email)

RECURSIVE replace(_, _, _)
replace(s, old, new) ==
    IF Len(s) < Len(old) THEN s
    ELSE IF SubSeq(s, 1, Len(old)) = old
         THEN new \o replace(SubSeq(s, Len(old) + 1, Len(s)), old, new)
         ELSE <<Head(s)>> \o replace(Tail(s), old, new)

\* str.strip(), for text whose only whitespace is the space
RECURSIVE strip(_)
strip(s) ==
    IF s = <<>> THEN s
    ELSE IF Head(s) = " " THEN strip(Tail(s))
    ELSE IF s[Len(s)] = " " THEN strip(SubSeq(s, 1, Len(s) - 1))
    ELSE s

\* the position of the first occurrence of sub in s from i on (0-based
\* offset, as str.find)
RECURSIVE find(_, _, _)
find(s, sub, i) ==
    IF SubSeq(s, i + 1, i + Len(sub)) = sub THEN i ELSE find(s, sub, i + 1)

\* str.split()[0] of a name that is not blank
RECURSIVE first_word(_)
first_word(s) ==
    IF s = <<>> THEN <<>>
    ELSE IF Head(s) = " " THEN <<>>
    ELSE <<Head(s)>> \o first_word(Tail(s))

sender_name == <<"L","e","a","d"," ","G","e","n","e","r","a","t","o","r">>

DEFAULT_SUBJECT == <<"Q","u","i","c","k"," ","I","n","t","r","o","d","u","c","t","i","o","n"," ","-"," ","{","{","s","e","n","d","e","r","_","n","a","m","e","}","}"," ","+"," ","{","{","c","o","m","p","a","n","y","_","n","a","m","e","}","}">>

\* the body template the service is constructed with
GreetingTemplate == <<"H","i"," ","{","{","c","o","n","t","a","c","t","_","n","a","m","e","}","}",",">>

\* _replace_placeholders with the variables of send_email that occur in the
\* templates used
replace_placeholders(text, company) ==
    LET contact_name == IF company.contact.name # <<>>
                        THEN first_word(strip(company.contact.name))
                        ELSE <<"t","h","e","r","e">>
        r1 == replace(text, <<"{","{","c","o","n","t","a","c","t","_","n","a","m","e","}","}">>, contact_name)
        r2 == replace(r1, <<"{","{","c","o","m","p","a","n","y","_","n","a","m","e","}","}">>, company.company_name)
    IN  replace(r2, <<"{","{","s","e","n","d","e","r","_","n","a","m","e","}","}">>, sender_name)

\* the content of a completion that follows the format, and two that do not
FormattedContent == <<"S","U","B","J","E","C","T",":"," ","H","i"," ","B","O","D","Y",":"," ","Y","o"," ">>

PlainContent == <<"H","e","l","l","o">>

BodyOnlyContent == <<"B","O","D","Y",":"," ","Y","o">>

AiContents == {FormattedContent, PlainContent, BodyOnlyContent}

\* generate_ai_email once the completion came with status 200 (lines
\* 108-121): the dict it returns, which is never empty
parse_ai_content(content, company) ==
    IF contains(<<"S","U","B","J","E","C","T",":">>, content) /\ contains(<<"B","O","D","Y",":">>, content)
    THEN LET at == find(content, <<"B","O","D","Y",":">>, 0)
             head == SubSeq(content, 1, at)
             rest == SubSeq(content, at + Len(<<"B","O","D","Y",":">>) + 1, Len(content))
         IN  [truthy |-> TRUE,
              subject |-> strip(replace(head, <<"S","U","B","J","E","C","T",":">>, <<>>)),
              body |-> strip(rest)]
    ELSE [truthy |-> TRUE,
          subject |-> <<"Q","u","i","c","k"," ","I","n","t","r","o","d","u","c","t","i","o","n"," ","-"," ">> \o sender_name \o <<" ","+"," ">> \o company.company_name,
          body |-> strip(content)]

EmptyAiContent == [truthy |-> FALSE, subject |-> <<>>, body |-> <<>>]

\* subject and body of send_email (lines 192-205)
message(use_ai, ai_content, company) ==
    IF use_ai /\ ai_content.truthy
    THEN [source |-> "ai", subject |-> ai_content.subject, body |-> ai_content.body]
    ELSE [source |-> "template",
          subject |-> replace_placeholders(DEFAULT_SUBJECT, company),
          body |-> replace_placeholders(GreetingTemplate, company)]

MailContact(email, name) == [present |-> TRUE, email |-> email, name |-> name]

NoMailContact == [present |-> FALSE, email |-> <<>>, name |-> <<>>]

AcmeMail == [company_name |-> Acme, contact |-> MailContact(JoMail, <<"J","o"," ","D","o","e">>)]

BetaMail == [company_name |-> Beta, contact |-> MailContact(JOMAIL, <<>>)]

GammaMail == [company_name |-> <<"G","a","m","m","a">>, contact |-> NoMailContact]

DeltaMail == [company_name |-> <<"D","e","l","t","a">>, contact |-> MailContact(<<>>, <<"J","o"," ","D","o","e">>)]

\* the lists send_emails_batch is called with
MailLists ==
    {<<>>, <<AcmeMail>>, <<GammaMail>>, <<DeltaMail>>, <<AcmeMail, BetaMail>>,
     <<GammaMail, AcmeMail>>, <<AcmeMail, DeltaMail, BetaMail>>}

email_rate_limit_delay == 2000

ai_max_retries == 2

ai_base_delay == 2000

ai_frame ==
    retry_with_backoff(ai_max_retries, ai_base_delay,
                       default_max_delay, default_backoff_factor)

\* How the SMTP session of send_email may go:
\*   "ok"        the message is submitted and the session closed;
\*   "connect"   no connection (OSError), no session;
\*   "starttls"  SMTPException on starttls;
\*   "auth"      SMTPAuthenticationError on login;
\*   "send"      SMTPException on send_message;
\*   "quit"      the message is submitted, SMTPResponseException on leaving
\*               the `with` block.
SmtpKinds == {"ok", "connect", "starttls", "auth", "send", "quit"}

\* the EmailResult of an SMTP session (lines 209-255)
smtp_result(k, company) ==
    [success |-> k = "ok",
     recipient |-> company.contact.email,
     company_name |-> company.company_name,
     error_message |->
        CASE k = "ok" -> ""
          [] k = "auth" -> "Gmail authentication failed. Check your app password."
          [] k \in {"starttls", "send", "quit"} -> "SMTP error"
          [] OTHER -> "Error sending email"]

\* mutant: only the contact is tested, not its email
has_contact_email_any(company) == company.contact.present

\* the test of lines 166-172, negated
has_contact_email(company) ==
    company.contact.present /\ company.contact.email # <<>>

no_contact_result(company) ==
    [success |-> FALSE, recipient |-> <<>>,
     company_name |-> company.company_name,
     error_message |-> "No contact email available"]

\* mutant: the wait follows every company but the last
rate_limit_wait_always(success, i, total) == i < total

\* the test of line 284
rate_limit_wait(success, i, total) == success /\ i < total

\* mutant: a failed send_message is tried once more
smtp_sessions_retrying(k) == IF k = "send" THEN 2 ELSE 1

\* the number of SMTP sessions send_email may open when a session went as k:
\* the session is not in a loop and not under the retry decorator
smtp_sessions(k) == 1

\* the body of the loop of send_emails_batch once send_email returned
\* (lines 281-285)
after_send_email(m, result) ==
    LET i == Len(m.results) + 1
    IN  [m EXCEPT !.results = Append(@, result),
                  !.log = IF rate_limit_wait(result.success, i, Len(m.companies))
                          THEN Append(@, Event("sleep", i, "rate_limit",
                                               email_rate_limit_delay))
                          ELSE @]

\* the loop of send_emails_batch up to the next remote call
RECURSIVE send_next(_)
send_next(m) ==
    LET i == Len(m.results) + 1
    IN  IF i > Len(m.companies) THEN [m EXCEPT !.pc = "returned"]
        ELSE IF ~has_contact_email(m.companies[i])
             THEN send_next(after_send_email(m, no_contact_result(m.companies[i])))
             ELSE IF m.use_ai THEN [m EXCEPT !.pc = "ai"]
                  ELSE [m EXCEPT !.pc = "smtp",
                          !.message = message(FALSE, EmptyAiContent, m.companies[i])]

NoMessage == [source |-> "none", subject |-> <<>>, body |-> <<>>]

MailFrame(m) == IF m.pc = "ai" THEN ai_frame ELSE IdleFrame

MailIdle ==
    /\ board = [prefill |-> 0, columns |-> {}, items |-> <<>>]
    /\ crm = [pc |-> "off"]
    /\ hunter = [pc |-> "off"]
    /\ pick = [pc |-> "off"]
    /\ scrape = [pc |-> "off"]
    /\ pipe = [pc |-> "off"]

MailInit ==
    /\ rt = IdleFrame
    /\ \E use_ai \in BOOLEAN :
         mail = [pc |-> "idle", use_ai |-> use_ai, companies |-> <<>>,
                 results |-> <<>>, log |-> <<>>, sends |-> <<>>,
                 message |-> NoMessage, timeouts |-> 0]
    /\ MailIdle

\* send_emails_batch up to its first remote call
SendEmailsBatchCall ==
    /\ mail.pc = "idle"
    /\ \E companies \in MailLists :
         mail' = send_next([mail EXCEPT !.companies = companies])
    /\ rt' = MailFrame(mail')
    /\ UNCHANGED <<board, crm, hunter, pick, scrape, pipe>>

\* How one completion request of generate_ai_email may end: a 200 with a
\* content, another status, a RequestException, a 200 whose JSON lacks the
\* choices (KeyError, which the decorator does not retry).
AiKinds == {"content", "status", "timeout", "keyerror"}

\* one invocation of generate_ai_email, and send_email up to its SMTP session
AiAttempt ==
    /\ mail.pc = "ai"
    /\ rt.status = "running"
    /\ \E k \in (IF mail.timeouts < MaxTimeouts THEN AiKinds
                 ELSE AiKinds \ {"timeout"}),
          content \in AiContents :
         LET i == Len(mail.results) + 1
             f == wrapper(rt, CASE k = "timeout" -> "retryable"
                                [] k = "keyerror" -> "other"
                                [] OTHER -> "return")
             outcome == IF k # "content" THEN k
                        ELSE IF content = FormattedContent THEN "formatted"
                        ELSE "unformatted"
             m == [mail EXCEPT
                     !.log = Append(@, Event("ai_request", i, outcome, 0))
                             \o (IF Len(f.sleeps) > Len(rt.sleeps)
                                 THEN <<Event("sleep", i, "retry",
                                              f.sleeps[Len(f.sleeps)])>>
                                 ELSE <<>>),
                     !.timeouts = IF k = "timeout" THEN @ + 1 ELSE @]
             ai_content == IF k = "content"
                           THEN parse_ai_content(content, mail.companies[i])
                           ELSE EmptyAiContent
         IN  /\ (k # "content" => content = FormattedContent)
             /\ CASE f.status = "running" -> mail' = m /\ rt' = f
                  [] f.status = "raised" ->
                       /\ mail' = [m EXCEPT !.pc = "raised"]
                       /\ rt' = IdleFrame
                  [] OTHER ->
                       /\ mail' = [m EXCEPT !.pc = "smtp",
                                     !.message = message(TRUE, ai_content,
                                                         mail.companies[i])]
                       /\ rt' = IdleFrame
    /\ UNCHANGED <<board, crm, hunter, pick, scrape, pipe>>

\* the SMTP session of send_email, and send_emails_batch up to its next
\* remote call
SmtpAttempt ==
    /\ mail.pc = "smtp"
    /\ \E k \in SmtpKinds :
         LET i == Len(mail.results) + 1
             m == [mail EXCEPT
                     !.log = Append(@, Event("smtp", i, k, 0)),
                     !.sends =
                     Append(@, [company |-> i, kind |-> k,
                                opened |-> k # "connect",
                                submitted |-> k \in {"ok", "quit"},
                                to |-> mail.companies[i].contact.email,
                                message |-> mail.message])]
             mine == SelectSeq(m.sends, LAMBDA s : s.company = i)
         IN  /\ mail' = IF Len(mine) < smtp_sessions(k) THEN m
                        ELSE send_next(after_send_email(
                                 [m EXCEPT !.message = NoMessage],
                                 smtp_result(k, mail.companies[i])))
             /\ rt' = MailFrame(mail')
    /\ UNCHANGED <<board, crm, hunter, pick, scrape, pipe>>

MailNext == SendEmailsBatchCall \/ AiAttempt \/ SmtpAttempt

SpecMail == MailInit /\ [][MailNext]_vars

\* the completion requests made for company i, in order
AiRequests(i) ==
    SelectSeq(mail.log, LAMBDA e : e.op = "ai_request" /\ e.company = i)

SendsOf(i) == SelectSeq(mail.sends, LAMBDA s : s.company = i)

\* C13: send_emails_batch ends by returning one EmailResult per input
\* company, in input order.
C13_OneResultPerCompany ==
    mail.pc \in {"returned", "raised"} =>
        /\ mail.pc = "returned"
        /\ Len(mail.results) = Len(mail.companies)
        /\ \A i \in 1..Len(mail.companies) :
              mail.results[i].company_name = mail.companies[i].company_name

\* the completion call for company i is over and failed (a status other
\* than 200, or a RequestException on every attempt) or its content does not
\* follow the format
AiFailed(i) ==
    /\ AiRequests(i) # <<>>
    /\ LET last == AiRequests(i)[Len(AiRequests(i))].outcome
       IN  \/ last \in {"status", "unformatted"}
           \/ last = "timeout" /\ Len(AiRequests(i)) = ai_max_retries + 1

\* C14: in AI mode, when the completion call for a company failed or its
\* content does not follow the format, the message of that company is the
\* one rendered from the templates and its SMTP session is attempted.
C14_TemplateFallback ==
    mail.use_ai =>
        \A i \in 1..Len(mail.companies) :
            AiFailed(i) =>
                \/ /\ mail.pc = "smtp"
                   /\ i = Len(mail.results) + 1
                   /\ mail.message.source = "template"
                \/ /\ SendsOf(i) # <<>>
                   /\ SendsOf(i)[1].message.source = "template"

\* the positions of the log between j and h hold no SMTP session
NoSmtpBetween(j, h) ==
    \A x \in (j + 1)..(h - 1) : mail.log[x].op # "smtp"

RateWaitsBetween(j, h) ==
    {x \in (j + 1)..(h - 1) :
        mail.log[x].op = "sleep" /\ mail.log[x].outcome = "rate_limit"}

\* C15: between an SMTP session that succeeded and the next one there is
\* one wait of the inter-email delay, between one that failed and the next
\* there is none, and a wait of the inter-email delay only follows a
\* send_email that returned success.
C15_DelayAfterSuccessOnly ==
    /\ \A j, h \in 1..Len(mail.log) :
          (/\ j < h
           /\ mail.log[j].op = "smtp"
           /\ mail.log[h].op = "smtp"
           /\ NoSmtpBetween(j, h))
          => /\ Cardinality(RateWaitsBetween(j, h)) =
                    (IF mail.log[j].outcome = "ok" THEN 1 ELSE 0)
             /\ \A x \in RateWaitsBetween(j, h) :
                    mail.log[x].ms = email_rate_limit_delay
    /\ \A x \in 1..Len(mail.log) :
          (mail.log[x].op = "sleep" /\ mail.log[x].outcome = "rate_limit")
          => /\ mail.log[x].company <= Len(mail.results)
             /\ mail.results[mail.log[x].company].success

C15_Witness ==
    /\ mail.pc = "returned"
    /\ Len(mail.companies) = 3
    /\ mail.results[1].success
    /\ ~mail.results[2].success
    /\ ~mail.results[3].success
    /\ Len(mail.sends) = 2
    /\ \E x \in 1..Len(mail.log) :
          mail.log[x].op = "sleep" /\ mail.log[x].outcome = "rate_limit"

\* C16: for a company without contact, or whose contact has an empty
\* email, send_email returns a result with success false and an error
\* message, opens no SMTP session and makes no completion request, and the
\* batch does not end with an exception at such a company.
C16_NoContactFailsFast ==
    /\ \A i \in 1..Len(mail.results) :
          (~mail.companies[i].contact.present
              \/ mail.companies[i].contact.email = <<>>)
          => /\ ~mail.results[i].success
             /\ mail.results[i].error_message # ""
             /\ SendsOf(i) = <<>>
             /\ \A x \in 1..Len(mail.log) :
                   mail.log[x].company = i => mail.log[x].op = "sleep"
    /\ mail.pc \in {"ai", "smtp", "raised"} =>
          /\ mail.companies[Len(mail.results) + 1].contact.present
          /\ mail.companies[Len(mail.results) + 1].contact.email # <<>>

C16_Witness ==
    /\ mail.pc = "returned"
    /\ mail.use_ai
    /\ Len(mail.companies) = 3
    /\ mail.companies[2].contact.email = <<>>
    /\ mail.companies[2].contact.present
    /\ mail.results[2].error_message = "No contact email available"
    /\ mail.results[3].success

\* C17: for one send_email call at most one SMTP session is opened and at
\* most one message is submitted, whatever the session ended with.
C17_SmtpFireOnce ==
    \A i \in 1..Len(mail.companies) :
        /\ Len(SendsOf(i)) <= 1
        /\ Len(SelectSeq(SendsOf(i), LAMBDA s : s.submitted)) <= 1

C17_Witness ==
    /\ mail.pc = "returned"
    /\ mail.use_ai
    /\ Len(mail.companies) = 1
    /\ Len(AiRequests(1)) = 2
    /\ Len(mail.sends) = 1
    /\ mail.sends[1].kind = "send"
    /\ ~mail.results[1].success

(***************************************************************************)
(* ContactEnrichmentService in manual (scrape-and-infer) mode.             *)
(* scrape.pc is the remote call enrich_companies is at: "fetch" a page of  *)
(* the company's website (page 0 the homepage, 1..8 the CONTACT_PATHS),    *)
(* "ai" the completion request of _use_ai_to_find_contact.  scrape.log     *)
(* holds the requests and the waits; scrape.scraped what _scrape_website   *)
(* gave for each company: the addresses in the order they were extracted   *)
(* (found) and the list handed on (emails).                                *)
(***************************************************************************)
CONTACT_PATHS ==
    <<"/contact", "/contact-us", "/about", "/about-us",
      "/team", "/our-team", "/leadership", "/management">>

InfoMail == <<"i","n","f","o","@","x",".","i","o">>

JoDoeMail == <<"j","o",".","d","o","e","@","x",".","i","o">>

NoReplyMail == <<"n","o","r","e","p","l","y","@","x",".","i","o">>

NoPage == [status |-> 404, matches |-> <<>>]

\* What the websites answer: for each page its status and, for a 200, the
\* matches of the address pattern in its text, in text order.  An empty
\* website gives the URL "https://", which requests refuses (InvalidURL).
Web(website) ==
    IF website = AcmeSite
    THEN [pg \in 0..Len(CONTACT_PATHS) |->
            CASE pg = 0 -> [status |-> 200, matches |-> <<InfoMail>>]
              [] pg = 1 -> [status |-> 200, matches |-> <<JoDoeMail, InfoMail>>]
              [] OTHER -> NoPage]
    ELSE IF website = BetaSite
    THEN [pg \in 0..Len(CONTACT_PATHS) |->
            CASE pg = 3 -> [status |-> 200, matches |-> <<NoReplyMail, JoDoeMail>>]
              [] OTHER -> NoPage]
    ELSE [pg \in 0..Len(CONTACT_PATHS) |-> [status |-> 0, matches |-> <<>>]]

exclude ==
    {<<"e","x","a","m","p","l","e",".","c","o","m">>,
     <<"d","o","m","a","i","n",".","c","o","m">>,
     <<"e","m","a","i","l",".","c","o","m">>,
     <<"t","e","s","t",".","c","o","m">>,
     <<"n","o","r","e","p","l","y">>,
     <<"n","o","-","r","e","p","l","y">>,
     <<"d","o","n","o","t","r","e","p","l","y">>,
     <<"c","a","r","e","e","r","s","@">>,
     <<"j","o","b","s","@">>,
     <<"n","e","w","s","l","e","t","t","e","r","@">>,
     <<"u","n","s","u","b","s","c","r","i","b","e","@">>,
     <<".","p","n","g">>,
     <<".","j","p","g">>,
     <<".","g","i","f">>,
     <<"s","e","n","t","r","y",".","i","o">>,
     <<"w","i","x","p","r","e","s","s",".","c","o","m">>}

RECURSIVE dedupe(_)
dedupe(s) ==
    IF s = <<>> THEN <<>>
    ELSE LET rest == dedupe(SubSeq(s, 1, Len(s) - 1))
             x == s[Len(s)]
         IN  IF \E i \in 1..Len(rest) : rest[i] = x THEN rest ELSE Append(rest, x)

\* the orders list(set(...)) may give the elements of s
Orders(s) ==
    LET d == dedupe(s)
    IN  {[i \in 1..Len(d) |-> d[f[i]]] :
            f \in {g \in [1..Len(d) -> 1..Len(d)] :
                     \A i, j \in 1..Len(d) : g[i] = g[j] => i = j}}

\* _extract_emails_from_text on the matches of the pattern: the addresses
\* that contain none of the excluded texts; their order is lost in
\* _scrape_website, which goes through a set again
extract_emails_from_text(matches) ==
    SelectSeq(matches, LAMBDA e : \A x \in exclude : ~contains(x, lower(e)))

upper(c) ==
    IF \E k \in DOMAIN ascii_lowercase : ascii_lowercase[k] = c
    THEN CHOOSE k \in DOMAIN ascii_lowercase : ascii_lowercase[k] = c
    ELSE c

\* str.capitalize()
capitalize(s) ==
    IF s = <<>> THEN s ELSE <<upper(s[1])>> \o lower(Tail(s))

\* re.split on the characters of seps
RECURSIVE split_on(_, _)
split_on(s, seps) ==
    IF \A i \in 1..Len(s) : s[i] \notin seps THEN <<s>>
    ELSE LET at == CHOOSE i \in 1..Len(s) :
                      s[i] \in seps /\ \A j \in 1..(i - 1) : s[j] \notin seps
         IN  <<SubSeq(s, 1, at - 1)>> \o split_on(SubSeq(s, at + 1, Len(s)), seps)

Digits == {"0", "1", "2", "3", "4", "5", "6", "7", "8", "9"}

\* email.split('@')[0]
local_part(email) == split_on(email, {"@"})[1]

email_to_name(email_prefix) ==
    LET name == SelectSeq(email_prefix, LAMBDA c : c \notin Digits)
        parts == split_on(name, {".", "_", "-"})
        long == SelectSeq(parts, LAMBDA q : Len(q) > 1)
        name_parts == [i \in 1..Len(long) |-> capitalize(long[i])]
    IN  IF Len(name_parts) >= 2 THEN name_parts[1] \o <<" ">> \o name_parts[2]
        ELSE IF Len(name_parts) = 1 THEN name_parts[1]
        ELSE <<"C","o","n","t","a","c","t">>

NoScrapeContact ==
    [present |-> FALSE, name |-> <<>>, email |-> <<>>, position |-> <<>>]

ScrapeContact(name, email, position) ==
    [present |-> TRUE, name |-> name, email |-> email, position |-> position]

\* mutant: the fallback takes the last email of the list
fallback_contact_last(emails) ==
    IF emails # <<>>
    THEN ScrapeContact(email_to_name(local_part(emails[Len(emails)])),
                       emails[Len(emails)], <<"C","o","n","t","a","c","t">>)
    ELSE NoScrapeContact

\* the fallback of _use_ai_to_find_contact (lines 406-411), which is also
\* what it returns for a single email (lines 349-352)
fallback_contact(emails) ==
    IF emails # <<>>
    THEN ScrapeContact(email_to_name(local_part(emails[1])), emails[1], <<"C","o","n","t","a","c","t">>)
    ELSE NoScrapeContact

\* mutant: the completion is asked for a single email as well
needs_ai_from_one(emails) == Len(emails) >= 1

\* the tests of lines 346-352: the completion is asked for several emails
needs_ai(emails) == ~(emails = <<>>) /\ ~(Len(emails) = 1)

\* The contents of a completion, as their lines.
UsableReply == <<<<"E","M","A","I","L",":"," ","j","o",".","d","o","e","@","x",".","i","o">>, <<"N","A","M","E",":"," ","C","o","n","t","a","c","t">>, <<"P","O","S","I","T","I","O","N",":"," ","C","E","O">>>>

NoEmailReply == <<<<"S","o","r","r","y">>>>

NoneReply == <<<<"E","M","A","I","L",":"," ","n","o","n","e">>, <<"N","A","M","E",":"," ","J","o">>>>

ForeignReply == <<<<"E","M","A","I","L",":"," ","e","v","e","@","e","v","i","l",".","i","o">>, <<"N","A","M","E",":"," ","E","v","e">>>>

AiReplies == {UsableReply, NoEmailReply, NoneReply, ForeignReply}

\* the loop over the lines of the content (lines 383-394)
RECURSIVE parse_reply(_, _)
parse_reply(lines, acc) ==
    IF lines = <<>> THEN acc
    ELSE LET line == Head(lines)
             value(key) == strip(replace(line, key, <<>>))
         IN  parse_reply(Tail(lines),
                 IF starts_with(line, <<"E","M","A","I","L",":">>)
                 THEN [acc EXCEPT !.email = value(<<"E","M","A","I","L",":">>)]
                 ELSE IF starts_with(line, <<"N","A","M","E",":">>)
                 THEN [acc EXCEPT !.name = value(<<"N","A","M","E",":">>)]
                 ELSE IF starts_with(line, <<"P","O","S","I","T","I","O","N",":">>)
                 THEN [acc EXCEPT !.position = value(<<"P","O","S","I","T","I","O","N",":">>)]
                 ELSE acc)

\* _use_ai_to_find_contact once the completion request ended (lines 381-411):
\* k is "content" for a 200, "status" for another status, "raise" for an
\* exception
ai_contact(k, reply, emails) ==
    LET parsed == parse_reply(reply, [email |-> <<>>, name |-> <<>>,
                                      position |-> <<"D","e","c","i","s","i","o","n"," ","M","a","k","e","r">>])
    IN  IF k = "content" /\ parsed.email # <<>> /\ contains(<<"@">>, parsed.email)
        THEN ScrapeContact(IF parsed.name # <<"C","o","n","t","a","c","t">> THEN parsed.name
                           ELSE email_to_name(local_part(parsed.email)),
                           parsed.email, parsed.position)
        ELSE fallback_contact(emails)

\* the lists enrich_companies is called with in manual mode
ScrapeLists ==
    {<<>>, <<AcmeCo>>, <<BetaCo>>, <<GammaCo>>, <<BetaCo, AcmeCo>>}

fetch_max_retries == 2

fetch_base_delay == 1000

fetch_frame ==
    retry_with_backoff(fetch_max_retries, fetch_base_delay,
                       default_max_delay, default_backoff_factor)

ScrapeEvent(op, company, page, outcome, ms) ==
    [op |-> op, company |-> company, page |-> page, outcome |-> outcome, ms |-> ms]

\* _enrich_manual once the contact is known (lines 418-427)
manual_enriched(s, contact) ==
    LET i == Len(s.enriched) + 1
    IN  [s EXCEPT !.log = Append(@, ScrapeEvent("sleep", i, 0, "rate_limit",
                                                rate_limit_delay)),
                  !.enriched = Append(@, [company_name |-> s.companies[i].name,
                                          contact |-> contact])]

\* mutant: the emails found before the exception still give a contact
manual_failed_with_contact(s) ==
    LET i == Len(s.enriched) + 1
    IN  [s EXCEPT !.scraped = Append(@, [found |-> s.found, emails |-> <<>>,
                                         complete |-> FALSE]),
                  !.enriched = Append(@, [company_name |-> s.companies[i].name,
                                          contact |-> fallback_contact(s.found)])]

\* _enrich_manual when _scrape_website raised (lines 428-430)
manual_failed(s) ==
    LET i == Len(s.enriched) + 1
    IN  [s EXCEPT !.scraped = Append(@, [found |-> s.found, emails |-> <<>>,
                                         complete |-> FALSE]),
                  !.enriched = Append(@, [company_name |-> s.companies[i].name,
                                          contact |-> NoScrapeContact])]

\* the loop of enrich_companies up to the next request
scrape_next(s) ==
    IF Len(s.enriched) = Len(s.companies) THEN [s EXCEPT !.pc = "done"]
    ELSE [s EXCEPT !.pc = "fetch", !.page = 0, !.found = <<>>]

\* _scrape_website returned: _use_ai_to_find_contact up to its request, for
\* each order the list of emails may have
after_scrape(s) ==
    {LET s1 == [s EXCEPT !.scraped = Append(@, [found |-> s.found,
                                                 emails |-> emails,
                                                 complete |-> TRUE])]
     IN  IF needs_ai(emails) THEN [s1 EXCEPT !.pc = "ai"]
         ELSE scrape_next(manual_enriched(s1, fallback_contact(emails))) :
       emails \in Orders(s.found)}

ScrapeFrame(s) == IF s.pc = "fetch" THEN fetch_frame ELSE IdleFrame

ScrapeIdle ==
    /\ board = [prefill |-> 0, columns |-> {}, items |-> <<>>]
    /\ crm = [pc |-> "off"]
    /\ hunter = [pc |-> "off"]
    /\ pick = [pc |-> "off"]
    /\ mail = [pc |-> "off"]
    /\ pipe = [pc |-> "off"]

ScrapeInit ==
    /\ rt = IdleFrame
    /\ scrape = [pc |-> "idle", companies |-> <<>>, enriched |-> <<>>,
                 page |-> 0, found |-> <<>>, scraped |-> <<>>, log |-> <<>>,
                 timeouts |-> 0]
    /\ ScrapeIdle

\* enrich_companies in manual mode up to its first request
EnrichManualCall ==
    /\ scrape.pc = "idle"
    /\ \E companies \in ScrapeLists :
         scrape' = scrape_next([scrape EXCEPT !.companies = companies])
    /\ rt' = ScrapeFrame(scrape')
    /\ UNCHANGED <<board, crm, hunter, pick, mail, pipe>>

\* one invocation of _fetch_page: the site answers, or the request ends
\* with a ConnectionError or Timeout; then _scrape_website and
\* _enrich_manual up to the next request
FetchAttempt ==
    /\ scrape.pc = "fetch"
    /\ rt.status = "running"
    /\ LET i == Len(scrape.enriched) + 1
           answer == Web(scrape.companies[i].website)[scrape.page]
       IN  \E k \in (IF scrape.timeouts < MaxTimeouts /\ answer.status # 0
                     THEN {"answer", "timeout"} ELSE {"answer"}) :
             LET f == wrapper(rt, IF k = "timeout" THEN "retryable" ELSE "return")
                 outcome == IF k = "timeout" THEN k
                            ELSE IF answer.status = 200 THEN "text" ELSE "none"
                 s == [scrape EXCEPT
                         !.log = Append(@, ScrapeEvent("fetch", i, scrape.page,
                                                       outcome, 0))
                                 \o (IF Len(f.sleeps) > Len(rt.sleeps)
                                     THEN <<ScrapeEvent("sleep", i, scrape.page, "retry",
                                                        f.sleeps[Len(f.sleeps)])>>
                                     ELSE <<>>),
                         !.timeouts = IF k = "timeout" THEN @ + 1 ELSE @]
                 got == [s EXCEPT !.found = IF outcome = "text"
                                            THEN @ \o extract_emails_from_text(answer.matches)
                                            ELSE @]
             IN  /\ CASE f.status = "running" -> scrape' = s
                      [] f.status = "raised" -> scrape' = scrape_next(manual_failed(s))
                      [] OTHER ->
                           IF scrape.page < Len(CONTACT_PATHS)
                           THEN scrape' = [got EXCEPT !.page = @ + 1]
                           ELSE scrape' \in after_scrape(got)
                 /\ rt' = IF f.status = "running" THEN f
                          ELSE IF f.status = "returned" /\ scrape.page < Len(CONTACT_PATHS)
                               THEN fetch_frame
                               ELSE ScrapeFrame(scrape')
    /\ UNCHANGED <<board, crm, hunter, pick, mail, pipe>>

AiContactKinds == {"content", "status", "raise"}

\* the completion request of _use_ai_to_find_contact and what follows
AiContactAttempt ==
    /\ scrape.pc = "ai"
    /\ \E k \in AiContactKinds, reply \in AiReplies :
         LET i == Len(scrape.enriched) + 1
             emails == scrape.scraped[i].emails
             contact == ai_contact(k, reply, emails)
             outcome == IF k # "content" THEN k
                        ELSE IF reply = UsableReply THEN "usable"
                        ELSE IF reply = ForeignReply THEN "foreign"
                        ELSE "unusable"
             s == [scrape EXCEPT !.log = Append(@, ScrapeEvent("ai_request", i, 0,
                                                               outcome, 0))]
         IN  /\ (k # "content" => reply = UsableReply)
             /\ scrape' = scrape_next(manual_enriched(s, contact))
    /\ rt' = ScrapeFrame(scrape')
    /\ UNCHANGED <<board, crm, hunter, pick, mail, pipe>>

ScrapeNext == EnrichManualCall \/ FetchAttempt \/ AiContactAttempt

SpecScrape == ScrapeInit /\ [][ScrapeNext]_vars

\* the positions of the log with a request of kind op for company i
ScrapeRequests(op, i) ==
    {x \in 1..Len(scrape.log) :
        scrape.log[x].op = op /\ scrape.log[x].company = i}

\* C18: a failed fetch of a page of a company (a status other than 200, or
\* a timeout or connection error) does not stop its scrape: every page of
\* the company is fetched, and when addresses were extracted from its other
\* pages the company gets a contact.
C18_FetchFailureNotFatal ==
    \A i \in 1..Len(scrape.enriched) :
        (\E x \in ScrapeRequests("fetch", i) :
            scrape.log[x].outcome \in {"none", "timeout"})
        => /\ \A pg \in 0..Len(CONTACT_PATHS) :
                 \E x \in ScrapeRequests("fetch", i) : scrape.log[x].page = pg
           /\ scrape.scraped[i].found # <<>> => scrape.enriched[i].contact.present

\* C19: the completion provider is asked for a company only when its list
\* of emails has more than one entry; with no email the company has no
\* contact and with one email the contact has that email, in both cases
\* without a completion request.
C19_AiOnlyForSeveral ==
    \A i \in 1..Len(scrape.scraped) :
        LET emails == scrape.scraped[i].emails
        IN  /\ ScrapeRequests("ai_request", i) # {} => Len(emails) > 1
            /\ Cardinality(ScrapeRequests("ai_request", i)) <= 1
            /\ (scrape.scraped[i].complete /\ Len(emails) = 0)
               => /\ i <= Len(scrape.enriched)
                  /\ ~scrape.enriched[i].contact.present
            /\ (scrape.scraped[i].complete /\ Len(emails) = 1)
               => /\ i <= Len(scrape.enriched)
                  /\ scrape.enriched[i].contact.present
                  /\ scrape.enriched[i].contact.email = emails[1]

C19_Witness ==
    /\ scrape.pc = "done"
    /\ Len(scrape.companies) = 2
    /\ scrape.scraped[1].emails = <<JoDoeMail>>
    /\ scrape.enriched[1].contact.email = JoDoeMail
    /\ ScrapeRequests("ai_request", 1) = {}
    /\ ScrapeRequests("ai_request", 2) # {}
    /\ Len(scrape.scraped[2].emails) = 2

\* the completion request for company i raised, had a status other than
\* 200, or its content has no usable EMAIL: line
AiContactFailed(i) ==
    \E x \in ScrapeRequests("ai_request", i) :
        scrape.log[x].outcome \in {"raise", "status", "unusable"}

\* C20 as stated: after a failed completion request the contact has the
\* email that was extracted first and the name derived from its local part.
C20_Original ==
    \A i \in 1..Len(scrape.enriched) :
        AiContactFailed(i) =>
            /\ scrape.enriched[i].contact.present
            /\ scrape.enriched[i].contact.email = scrape.scraped[i].found[1]
            /\ scrape.enriched[i].contact.name =
                   email_to_name(local_part(scrape.scraped[i].found[1]))

\* C20 amended: after a failed completion request the company has a
\* contact, with the email at the head of the list of candidate emails, in
\* whichever order the set of extracted emails was listed, the name derived
\* from the local part of that email and the position "Contact".
C20_FallbackContact ==
    \A i \in 1..Len(scrape.enriched) :
        AiContactFailed(i) =>
            /\ scrape.enriched[i].contact.present
            /\ scrape.enriched[i].contact.email = scrape.scraped[i].emails[1]
            /\ scrape.enriched[i].contact.name =
                   email_to_name(local_part(scrape.scraped[i].emails[1]))
            /\ scrape.enriched[i].contact.position = <<"C","o","n","t","a","c","t">>

C20_Witness ==
    /\ scrape.pc = "done"
    /\ Len(scrape.enriched) = 1
    /\ \E x \in ScrapeRequests("ai_request", 1) : scrape.log[x].outcome = "raise"
    /\ scrape.scraped[1].found[1] = InfoMail
    /\ scrape.scraped[1].emails = <<JoDoeMail, InfoMail>>
    /\ scrape.enriched[1].contact.email = JoDoeMail
    /\ scrape.enriched[1].contact.name = <<"J","o"," ","D","o","e">>

(***************************************************************************)
(* ContactEnrichmentService in either mode: the service is constructed for *)
(* hunter mode or for manual mode.                                         *)
(***************************************************************************)
EnrichInit == HunterInit \/ ScrapeInit

EnrichNext == HunterNext \/ ScrapeNext

SpecEnrich == EnrichInit /\ [][EnrichNext]_vars

\* C21: the list enrich_companies builds carries, at position i, the name
\* of the i-th input company, and the list it returns has the length of its
\* input, in hunter mode, on its no-credits path, and in manual mode.
C21_EnrichKeepsOrder ==
    /\ hunter.pc # "off" =>
          /\ Len(hunter.enriched) <= Len(hunter.companies)
          /\ \A i \in 1..Len(hunter.enriched) :
                hunter.enriched[i].company_name = hunter.companies[i].name
          /\ hunter.pc = "done" => Len(hunter.enriched) = Len(hunter.companies)
    /\ scrape.pc # "off" =>
          /\ Len(scrape.enriched) <= Len(scrape.companies)
          /\ \A i \in 1..Len(scrape.enriched) :
                scrape.enriched[i].company_name = scrape.companies[i].name
          /\ scrape.pc = "done" => Len(scrape.enriched) = Len(scrape.companies)

C21_Witness ==
    /\ hunter.pc = "done"
    /\ Len(hunter.companies) = 2
    /\ hunter.companies[1].name # hunter.companies[2].name
    /\ ~hunter.enriched[1].contact.present
    /\ Searches(1) = <<>>
    /\ hunter.enriched[2].contact.present

HunterRequests == {"account", "email_count", "domain_search"}

\* C22: between two successive requests to the contacts provider (account,
\* email count, domain search) there is a wait of the rate-limit delay or
\* longer.
C22_MinimumSpacing ==
    \A j, h \in 1..Len(hunter.log) :
        (/\ j < h
         /\ hunter.log[j].op \in HunterRequests
         /\ hunter.log[h].op \in HunterRequests
         /\ \A x \in (j + 1)..(h - 1) : hunter.log[x].op \notin HunterRequests)
        => \E x \in (j + 1)..(h - 1) :
              /\ hunter.log[x].op = "sleep"
              /\ hunter.log[x].ms >= rate_limit_delay

\* an exception reached the per-company boundary of _enrich_hunter: the
\* retries of a request were exhausted, or the email count was null
HunterFailed(i) ==
    \/ Len(SelectSeq(Prechecks(i), LAMBDA e : e.outcome = "timeout"))
           = hunter_max_retries + 1
    \/ Len(SelectSeq(Searches(i), LAMBDA e : e.outcome = "timeout"))
           = hunter_max_retries + 1
    \/ \E x \in 1..Len(Prechecks(i)) : Prechecks(i)[x].outcome = "null"

\* C23: enrich_company ends with an entry for its company in either mode;
\* when a failure reached its boundary (retries exhausted, malformed data)
\* the entry has no contact; and enrich_companies goes on, so that it ends
\* with an entry for every company.
C23_EnrichNeverRaises ==
    /\ hunter.pc # "off" =>
          /\ hunter.pc \in {"idle", "email_count", "domain_search", "done"}
          /\ \A i \in 1..Len(hunter.enriched) :
                HunterFailed(i) => ~hunter.enriched[i].contact.present
          /\ hunter.pc \in {"email_count", "domain_search"} =>
                Len(hunter.enriched) < Len(hunter.companies)
          /\ hunter.pc = "done" => Len(hunter.enriched) = Len(hunter.companies)
    /\ scrape.pc # "off" =>
          /\ scrape.pc \in {"idle", "fetch", "ai", "done"}
          /\ Len(scrape.scraped) \in {Len(scrape.enriched), Len(scrape.enriched) + 1}
          /\ \A i \in 1..Len(scrape.enriched) :
                ~scrape.scraped[i].complete => ~scrape.enriched[i].contact.present
          /\ scrape.pc \in {"fetch", "ai"} =>
                Len(scrape.enriched) < Len(scrape.companies)
          /\ scrape.pc = "done" => Len(scrape.enriched) = Len(scrape.companies)

C23_Witness ==
    /\ scrape.pc = "done"
    /\ Len(scrape.companies) = 2
    /\ ~scrape.scraped[1].complete
    /\ scrape.scraped[1].found # <<>>
    /\ ~scrape.enriched[1].contact.present
    /\ scrape.enriched[2].contact.present

\* C24: a domain search answered with 429, 401 or 403 is not repeated, its
\* company ends without contact, and the wait that follows it at once is
\* the cooldown for a 429 and the rate-limit delay for a 401 or 403.
C24_DomainSearchStatuses ==
    \A j \in 1..Len(hunter.log) :
        (/\ hunter.log[j].op = "domain_search"
         /\ hunter.log[j].outcome \in {"s429", "s401", "s403"})
        => LET i == hunter.log[j].company
           IN  /\ \A x \in (j + 1)..Len(hunter.log) :
                     ~(hunter.log[x].op = "domain_search"
                          /\ hunter.log[x].company = i)
               /\ i <= Len(hunter.enriched)
               /\ ~hunter.enriched[i].contact.present
               /\ Len(hunter.log) >= j + 1
               /\ IF hunter.log[j].outcome = "s429"
                  THEN /\ hunter.log[j + 1] = Sleep(cooldown_429)
                       /\ Len(hunter.log) >= j + 2
                       /\ hunter.log[j + 2] = Sleep(rate_limit_delay)
                  ELSE hunter.log[j + 1] = Sleep(rate_limit_delay)

C24_Witness ==
    /\ hunter.pc = "done"
    /\ Len(hunter.companies) = 2
    /\ Searches(1) # <<>>
    /\ Searches(1)[1].outcome = "s429"
    /\ Searches(2) # <<>>
    /\ Searches(2)[1].outcome = "s403"
    /\ ~hunter.enriched[1].contact.present
    /\ ~hunter.enriched[2].contact.present

\* C29: the email of the contact the scrape-and-infer strategy returns for
\* a company is one of the emails extracted from the pages of that company.
C29_ContactAmongCandidates ==
    \A i \in 1..Len(scrape.enriched) :
        scrape.enriched[i].contact.present =>
            \E x \in 1..Len(scrape.scraped[i].found) :
                scrape.scraped[i].found[x] = scrape.enriched[i].contact.email


(***************************************************************************)
(* main.py: run_batch and the run_pipeline of each job.                    *)
(* A stage of run_pipeline is one step, and so is each create_lead and     *)
(* each update_email_sent call of its loops; the step chooses among the    *)
(* ways the call may end (a value, or an exception).  pipe.log lists the   *)
(* stages the jobs entered, in order.  An item id is <<job, n>>, None is   *)
(* <<>>.  export_csv and preview_only keep their defaults (False).         *)
(***************************************************************************)
\* dict.get(key, default)
get(d, key, default) == IF key \in DOMAIN d THEN d[key] ELSE default

SolarJob == [company_type |-> "solar installers", region |-> "Winnipeg"]

SaasJob == [company_type |-> "SaaS startups", region |-> "Toronto", count |-> 5]

NoRegionJob == [company_type |-> "solar installers"]

EmptyTypeJob == [company_type |-> "", region |-> "Toronto"]

JobLists ==
    {<<>>, <<SolarJob>>, <<EmptyTypeJob>>, <<NoRegionJob, SolarJob>>,
     <<SolarJob, SaasJob>>, <<SolarJob, EmptyTypeJob, SaasJob>>}

DiscoveredLists == {<<>>, <<"A">>, <<"A", "B">>, <<"A", "B", "C">>}

\* mutant: only company_type is required
runnable_type_only(job) == get(job, "company_type", "") # ""

\* the test of the required fields (lines 255-261), negated
runnable(job) ==
    get(job, "company_type", "") # "" /\ get(job, "region", "") # ""

NoneId == <<>>

PipeIdle(board_id) ==
    [pc |-> "idle", jobs |-> <<>>, send_emails |-> FALSE, board_id |-> board_id,
     idx |-> 0, log |-> <<>>, all_results |-> 0,
     companies |-> <<>>, enriched |-> <<>>, i |-> 0, created_ids |-> <<>>,
     results |-> <<>>, z |-> 0, updates |-> <<>>]

\* the stage the current job enters
Log(p, stage, raised) ==
    [p EXCEPT !.log = Append(@, [job |-> p.idx, stage |-> stage,
                                 raised |-> raised])]

\* The loop of run_batch from job idx on (lines 254-268): jobs without
\* company_type or region are passed over, the next other job starts its
\* run_pipeline; after the last job run_batch returns.
RECURSIVE next_job(_, _)
next_job(p, idx) ==
    IF idx > Len(p.jobs) THEN [p EXCEPT !.pc = "returned", !.idx = idx]
    ELSE IF ~runnable(p.jobs[idx]) THEN next_job(p, idx + 1)
    ELSE [p EXCEPT !.pc = "discover", !.idx = idx, !.companies = <<>>,
                   !.enriched = <<>>, !.i = 0, !.created_ids = <<>>,
                   !.results = <<>>, !.z = 0, !.updates = <<>>]

\* `except Exception` (line 278): SystemExit, which sys.exit raises, derives
\* from BaseException and is not caught
except_Exception(e) == e # "SystemExit"

\* run_pipeline left by exception e (lines 267-280)
job_raised(p, e) ==
    IF except_Exception(e) THEN next_job(p, p.idx + 1)
    ELSE [p EXCEPT !.pc = "exited"]

\* run_pipeline returned `enriched` (lines 220, 267-277)
job_returned(p) ==
    next_job([p EXCEPT !.all_results = @ + Len(p.enriched)], p.idx + 1)

\* emailable (line 166)
emailable(enriched) == SelectSeq(enriched, LAMBDA c : c.has_email)

\* step 4 up to its first call (lines 162-205)
enter_email(p) ==
    IF emailable(p.enriched) = <<>> THEN job_returned(p)
    ELSE IF p.send_emails THEN [p EXCEPT !.pc = "send"]
    ELSE job_returned(p)

\* The loop over zip(created_ids, results) from pair z on (lines 192-197):
\* the next pair with an item id and a successful result calls
\* update_email_sent; after the last pair the pipeline returns.
RECURSIVE next_update(_, _)
next_update(p, z) ==
    IF z > Min(Len(p.created_ids), Len(p.results)) THEN job_returned(p)
    ELSE IF p.created_ids[z].item_id # NoneId /\ p.results[z].success
         THEN [p EXCEPT !.pc = "update", !.z = z]
    ELSE next_update(p, z + 1)

\* step 3 once the board id is there (lines 138-142)
enter_crm(p) == [p EXCEPT !.pc = "crm_service"]

\* run_batch called with the jobs of a batch file (lines 243-254)
RunBatchCall ==
    /\ pipe.pc = "idle"
    /\ \E jobs \in JobLists, send_emails \in BOOLEAN :
         pipe' = IF jobs = <<>> THEN [pipe EXCEPT !.pc = "exited"]
                 ELSE next_job([pipe EXCEPT !.jobs = jobs,
                                            !.send_emails = send_emails], 1)
    /\ UNCHANGED <<rt, board, crm, hunter, pick, mail, scrape>>

\* step 1 (lines 93-103): discover_companies returns companies or raises,
\* and then run_pipeline calls sys.exit(1)
DiscoverStep ==
    /\ pipe.pc = "discover"
    /\ \/ \E companies \in DiscoveredLists :
            pipe' = [Log(pipe, "discover", FALSE) EXCEPT
                        !.companies = companies, !.pc = "enrich"]
       \/ pipe' = job_raised(Log(pipe, "discover", TRUE), "SystemExit")
    /\ UNCHANGED <<rt, board, crm, hunter, pick, mail, scrape>>

\* step 2 (lines 105-136): enrich_companies returns one record for each
\* company, with or without a contact email; when it raises every company
\* goes on without contact.  Then the test of the configured board id.
EnrichStep ==
    /\ pipe.pc = "enrich"
    /\ LET n == Len(pipe.companies)
           enriched(has) == [k \in 1..n |->
                               [company_name |-> pipe.companies[k],
                                has_email |-> has[k]]]
           go(p) == IF p.board_id = "" THEN [p EXCEPT !.pc = "setup_board"]
                    ELSE enter_crm(p)
       IN  \/ \E has \in [1..n -> BOOLEAN] :
                pipe' = go([Log(pipe, "enrich", FALSE) EXCEPT
                               !.enriched = enriched(has)])
           \/ pipe' = go([Log(pipe, "enrich", TRUE) EXCEPT
                             !.enriched = enriched([k \in 1..n |-> FALSE])])
    /\ UNCHANGED <<rt, board, crm, hunter, pick, mail, scrape>>

\* setup_board (lines 43-57, 133-136): the id of the new board is kept in
\* the configuration; a failure of create_board ends in sys.exit(1)
SetupBoardStep ==
    /\ pipe.pc = "setup_board"
    /\ \/ pipe' = enter_crm([Log(pipe, "setup_board", FALSE) EXCEPT
                                !.board_id = NewBoard])
       \/ pipe' = job_raised(Log(pipe, "setup_board", TRUE), "SystemExit")
    /\ UNCHANGED <<rt, board, crm, hunter, pick, mail, scrape>>

\* the service of step 3 (lines 138-142, 156-160): when its set-up raises,
\* created_ids pairs None with every company
CrmServiceStep ==
    /\ pipe.pc = "crm_service"
    /\ \/ pipe' = IF pipe.enriched = <<>>
                  THEN enter_email(Log(pipe, "crm", FALSE))
                  ELSE [Log(pipe, "crm", FALSE) EXCEPT !.pc = "create_lead",
                                                       !.i = 1]
       \/ pipe' = enter_email(
                    [Log(pipe, "crm", TRUE) EXCEPT
                        !.created_ids =
                            [k \in 1..Len(pipe.enriched) |->
                                [item_id |-> NoneId,
                                 company |-> pipe.enriched[k].company_name]]])
    /\ UNCHANGED <<rt, board, crm, hunter, pick, mail, scrape>>

\* one create_lead of the loop of step 3 (lines 143-153): an id, None for a
\* duplicate, or an exception, which is logged
CreateLeadStep ==
    /\ pipe.pc = "create_lead"
    /\ \E out \in {"id", "none", "raised"} :
         LET p == [pipe EXCEPT
                     !.created_ids =
                         IF out = "id"
                         THEN Append(@, [item_id |-> <<pipe.idx, Len(@) + 1>>,
                                         company |->
                                             pipe.enriched[pipe.i].company_name])
                         ELSE @,
                     !.i = @ + 1]
         IN  pipe' = IF p.i > Len(p.enriched) THEN enter_email(p) ELSE p
    /\ UNCHANGED <<rt, board, crm, hunter, pick, mail, scrape>>

\* send_outreach_emails (lines 182-203): one result for each emailable
\* company, in order; an exception ends step 4
SendStep ==
    /\ pipe.pc = "send"
    /\ LET to == emailable(pipe.enriched)
       IN  \/ \E ok \in [1..Len(to) -> BOOLEAN] :
                pipe' = next_update(
                          [Log(pipe, "email", FALSE) EXCEPT
                              !.results = [k \in 1..Len(to) |->
                                             [company_name |-> to[k].company_name,
                                              success |-> ok[k]]]], 1)
           \/ pipe' = job_returned(Log(pipe, "email", TRUE))
    /\ UNCHANGED <<rt, board, crm, hunter, pick, mail, scrape>>

\* update_email_sent for the item of pair z (lines 192-197); what it raises
\* is dropped
UpdateStep ==
    /\ pipe.pc = "update"
    /\ pipe' = next_update(
                 [pipe EXCEPT !.updates =
                     Append(@, [item_id |-> pipe.created_ids[pipe.z].item_id,
                                result_of |-> pipe.results[pipe.z].company_name])],
                 pipe.z + 1)
    /\ UNCHANGED <<rt, board, crm, hunter, pick, mail, scrape>>

PipeInit ==
    /\ rt = IdleFrame
    /\ board = [prefill |-> 0, columns |-> {}, items |-> <<>>]
    /\ crm = [pc |-> "off"]
    /\ hunter = [pc |-> "off"]
    /\ pick = [pc |-> "off"]
    /\ mail = [pc |-> "off"]
    /\ scrape = [pc |-> "off"]
    /\ \E b \in {"", KnownBoard} : pipe = PipeIdle(b)

PipeNext ==
    \/ RunBatchCall
    \/ DiscoverStep
    \/ EnrichStep
    \/ SetupBoardStep
    \/ CrmServiceStep
    \/ CreateLeadStep
    \/ SendStep
    \/ UpdateStep

SpecPipe == PipeInit /\ [][PipeNext]_vars

\* a job that names a company type and a region
Complete(job) ==
    /\ "company_type" \in DOMAIN job /\ job.company_type # ""
    /\ "region" \in DOMAIN job /\ job.region # ""

\* the jobs that entered stage `stage`, in order
RECURSIVE JobsAt(_, _)
JobsAt(log, stage) ==
    IF log = <<>> THEN <<>>
    ELSE (IF Head(log).stage = stage THEN <<Head(log).job>> ELSE <<>>)
            \o JobsAt(Tail(log), stage)

\* the positions up to n of the jobs with both fields, in order
RECURSIVE CompleteUpTo(_, _)
CompleteUpTo(jobs, n) ==
    IF n = 0 THEN <<>>
    ELSE CompleteUpTo(jobs, n - 1)
            \o (IF Complete(jobs[n]) THEN <<n>> ELSE <<>>)

\* C26: no stage is entered for a job without company_type or region, and
\* the jobs run so far are the other jobs the loop has reached (the current
\* one once its first stage began), each once, in file order: all of them
\* when run_batch returns.
C26_SkipsIncompleteJobs ==
    pipe.pc \notin {"off", "idle"} =>
        /\ \A k \in 1..Len(pipe.log) : Complete(pipe.jobs[pipe.log[k].job])
        /\ JobsAt(pipe.log, "discover")
              = CompleteUpTo(pipe.jobs, IF pipe.pc = "discover" THEN pipe.idx - 1
                                        ELSE Min(pipe.idx, Len(pipe.jobs)))

\* run_batch returned from a file of three jobs whose second has an empty
\* company_type: the first and the third ran
C26_Witness ==
    /\ pipe.pc = "returned"
    /\ Len(pipe.jobs) = 3
    /\ ~Complete(pipe.jobs[2])
    /\ JobsAt(pipe.log, "discover") = <<1, 3>>

\* C27: once the batch is over, a job whose discovery failed entered no
\* later stage, and every later job with both fields was run.
C27_DiscoveryFailureLocal ==
    pipe.pc \in {"returned", "exited"} =>
        \A k \in 1..Len(pipe.log) :
            pipe.log[k].stage = "discover" /\ pipe.log[k].raised =>
                /\ \A m \in 1..Len(pipe.log) :
                      pipe.log[m].job = pipe.log[k].job => m = k
                /\ \A j \in (pipe.log[k].job + 1)..Len(pipe.jobs) :
                      Complete(pipe.jobs[j]) =>
                          \E m \in 1..Len(pipe.log) :
                              pipe.log[m] = [job |-> j, stage |-> "discover",
                                             raised |-> FALSE]
                              \/ pipe.log[m] = [job |-> j, stage |-> "discover",
                                                raised |-> TRUE]

\* C28: every update_email_sent of the current run_pipeline is for an item
\* whose own company has a successful result among the send results.
C28_OwnResultOnly ==
    pipe.pc # "off" =>
        \A u \in 1..Len(pipe.updates) :
            \E c \in 1..Len(pipe.created_ids), r \in 1..Len(pipe.results) :
                /\ pipe.created_ids[c].item_id = pipe.updates[u].item_id
                /\ pipe.results[r].company_name = pipe.created_ids[c].company
                /\ pipe.results[r].success
=============================================================================
